---- MODULE Spec2Model ----
(***************************************************************************)
(* fast-hasher (fhash): the concurrent scan-and-hash pipeline.             *)
(*                                                                         *)
(* The module models Scanner.ScanFiles and Scanner.ScanDir (a dispatcher   *)
(* goroutine, one goroutine per file, the semaphore channel, the wait      *)
(* group, the buffered result channel and its consumer), the per-file      *)
(* routines ScanFile and processFile, the filter predicate and the         *)
(* multi-hash fan-out they call.                                           *)
(*                                                                         *)
(* Strings are sequences of one-character strings, so that the path        *)
(* functions (Ext, Base, ToLower, Match) are computed, not assumed.        *)
(***************************************************************************)
EXTENDS Integers, Sequences, FiniteSets, TLC

(***************************************************************************)
(* Bounds of the model.                                                    *)
(***************************************************************************)
\* largest Scanner.Workers explored
MaxWorkers == 2
\* longest explicit path list handed to ScanFiles
MaxPaths == 3
\* most file-system entries that carry a fault (stat, read or readdir error)
MaxFaults == 1

\* a nil error or string
Nil == "nil"
\* a nil map (a nil and an empty map are both of length 0)
NilMap == <<>>

(***************************************************************************)
(* Strings.                                                                *)
(***************************************************************************)
Separator == "/"

\* the characters that occur, in the order of their codes
AsciiOrder ==
    <<"\t", " ", "*", ",", "-", ".", "/",
      "0", "1", "2", "3", "4", "5", "6", "7", "8", "9", "?",
      "A", "B", "C", "D", "E", "F", "G", "H", "I", "J", "K", "L", "M",
      "N", "O", "P", "Q", "R", "S", "T", "U", "V", "W", "X", "Y", "Z", "_",
      "a", "b", "c", "d", "e", "f", "g", "h", "i", "j", "k", "l", "m",
      "n", "o", "p", "q", "r", "s", "t", "u", "v", "w", "x", "y", "z">>

\* the place of every character in that order
Code == [c \in {AsciiOrder[i] : i \in 1..Len(AsciiOrder)} |->
            CHOOSE i \in 1..Len(AsciiOrder) : AsciiOrder[i] = c]

\* the lower-case letter of every upper-case letter ("a" stands 27 places
\* after "A")
LowerTable ==
    [c \in DOMAIN Code |->
        IF Code[c] >= Code["A"] /\ Code[c] <= Code["Z"]
        THEN AsciiOrder[Code[c] + 27] ELSE c]

LowerOf(c) == IF c \in DOMAIN LowerTable THEN LowerTable[c] ELSE c

\* strings.ToLower
ToLower(s) == [i \in 1..Len(s) |-> LowerOf(s[i])]

\* a < b in the order of sort.Strings (byte by byte, a prefix first)
StrLess(a, b) ==
    LET D == {i \in 1..Len(a) : i <= Len(b) /\ a[i] # b[i]}
    IN IF D = {} THEN Len(a) < Len(b)
       ELSE LET i == CHOOSE j \in D : \A k \in D : j <= k
            IN Code[a[i]] < Code[b[i]]

\* sort.Strings on the elements of a set
RECURSIVE SortStrings(_)
SortStrings(S) ==
    IF S = {} THEN <<>>
    ELSE LET m == CHOOSE x \in S : \A y \in S : x = y \/ StrLess(x, y)
         IN <<m>> \o SortStrings(S \ {m})

\* strings.Split(s, sep) for a separator of one character
RECURSIVE Split(_, _)
Split(str, sep) ==
    LET P == {i \in 1..Len(str) : str[i] = sep}
    IN IF P = {} THEN <<str>>
       ELSE LET i == CHOOSE j \in P : \A k \in P : j <= k
            IN <<SubSeq(str, 1, i - 1)>> \o Split(SubSeq(str, i + 1, Len(str)), sep)

\* strings.Join(parts, sep)
RECURSIVE StringsJoin(_, _)
StringsJoin(parts, sep) ==
    IF parts = <<>> THEN <<>>
    ELSE IF Len(parts) = 1 THEN parts[1]
    ELSE parts[1] \o sep \o StringsJoin(Tail(parts), sep)

WhiteSpace == {" ", "\t"}

\* strings.TrimSpace
TrimSpace(str) ==
    LET K == {i \in 1..Len(str) : str[i] \notin WhiteSpace}
    IN IF K = {} THEN <<>>
       ELSE SubSeq(str, CHOOSE i \in K : \A j \in K : i <= j,
                        CHOOSE i \in K : \A j \in K : j <= i)

\* strings.HasPrefix
HasPrefix(s, p) == Len(s) >= Len(p) /\ SubSeq(s, 1, Len(p)) = p

\* the index of the last separator of s, 0 when there is none
LastSep(s) ==
    LET I == {i \in 1..Len(s) : s[i] = Separator}
    IN IF I = {} THEN 0 ELSE CHOOSE i \in I : \A j \in I : j <= i

\* filepath.Ext: the suffix starting at the last dot of the last element
Ext(path) ==
    LET from == LastSep(path) + 1
        D == {i \in from..Len(path) : path[i] = "."}
    IN IF D = {} THEN <<>>
       ELSE SubSeq(path, CHOOSE i \in D : \A j \in D : j <= i, Len(path))

RECURSIVE StripTrailingSep(_)
StripTrailingSep(s) ==
    IF Len(s) > 0 /\ s[Len(s)] = Separator
    THEN StripTrailingSep(SubSeq(s, 1, Len(s) - 1))
    ELSE s

\* filepath.Base: the last element of the path
Base(path) ==
    IF path = <<>> THEN <<".">>
    ELSE LET t == StripTrailingSep(path)
         IN IF t = <<>> THEN <<Separator>>
            ELSE SubSeq(t, LastSep(t) + 1, Len(t))

\* filepath.ToSlash: replaces the separator by a slash
ToSlash(path) ==
    IF Separator = "/" THEN path
    ELSE [i \in 1..Len(path) |-> IF path[i] = Separator THEN "/" ELSE path[i]]

\* filepath.Join of a directory and one name
Join(dir, name) == dir \o <<Separator>> \o name

\* filepath.IsAbs
IsAbs(path) == HasPrefix(path, <<Separator>>)

\* the working directory of the process
Cwd == <<"/", "w">>

\* filepath.Abs
Abs(path) == IF IsAbs(path) THEN path ELSE Join(Cwd, path)

\* filepath.Match for patterns made of literals, '?' and '*'
\* ('*' and '?' never match a separator)
RECURSIVE GlobMatch(_, _)
GlobMatch(pattern, name) ==
    IF pattern = <<>> THEN name = <<>>
    ELSE IF Head(pattern) = "*"
    THEN \/ GlobMatch(Tail(pattern), name)
         \/ /\ name # <<>>
            /\ Head(name) # Separator
            /\ GlobMatch(pattern, Tail(name))
    ELSE IF Head(pattern) = "?"
    THEN /\ name # <<>>
         /\ Head(name) # Separator
         /\ GlobMatch(Tail(pattern), Tail(name))
    ELSE /\ name # <<>>
         /\ Head(name) = Head(pattern)
         /\ GlobMatch(Tail(pattern), Tail(name))

(***************************************************************************)
(* FilterOptions (internal/scanner/filter.go).                             *)
(***************************************************************************)
NoFilter ==
    [MaxSize |-> 0, MinSize |-> 0, IncludeExts |-> <<>>, ExcludeExts |-> <<>>,
     IncludeGlobs |-> <<>>, ExcludeGlobs |-> <<>>]

normalizeExt(ext) ==
    IF ext = <<>> THEN <<>>
    ELSE IF ~HasPrefix(ext, <<".">>) THEN <<".">> \o ext
    ELSE ext

matchExtension_DenyFirst(f, path) ==
    LET ext == ToLower(Ext(path))
    IN IF Len(f.ExcludeExts) > 0
       THEN ~\E i \in 1..Len(f.ExcludeExts) :
                ToLower(normalizeExt(f.ExcludeExts[i])) = ext
       ELSE IF Len(f.IncludeExts) > 0
       THEN \E i \in 1..Len(f.IncludeExts) :
                ToLower(normalizeExt(f.IncludeExts[i])) = ext
       ELSE TRUE

matchExtension(f, path) ==
    LET ext == ToLower(Ext(path))
    IN IF Len(f.IncludeExts) > 0
       THEN \E i \in 1..Len(f.IncludeExts) :
                ToLower(normalizeExt(f.IncludeExts[i])) = ext
       ELSE IF Len(f.ExcludeExts) > 0
       THEN ~\E i \in 1..Len(f.ExcludeExts) :
                ToLower(normalizeExt(f.ExcludeExts[i])) = ext
       ELSE TRUE

matchGlob(f, path) ==
    LET normalizedPath == ToSlash(path)
        baseName == Base(path)
        Hit(pattern) == GlobMatch(pattern, normalizedPath) \/ GlobMatch(pattern, baseName)
    IN /\ (Len(f.IncludeGlobs) > 0 =>
              \E i \in 1..Len(f.IncludeGlobs) : Hit(f.IncludeGlobs[i]))
       /\ (Len(f.ExcludeGlobs) > 0 =>
              ~\E i \in 1..Len(f.ExcludeGlobs) : Hit(f.ExcludeGlobs[i]))

Match(f, path, size) ==
    IF f.MaxSize > 0 /\ size > f.MaxSize THEN FALSE
    ELSE IF f.MinSize > 0 /\ size < f.MinSize THEN FALSE
    ELSE IF ~matchExtension(f, path) THEN FALSE
    ELSE IF ~matchGlob(f, path) THEN FALSE
    ELSE TRUE

\* the two size checks at the head of Match
sizeInRange_Strict(f, size) ==
    /\ ~(f.MaxSize > 0 /\ size >= f.MaxSize)
    /\ ~(f.MinSize > 0 /\ size <= f.MinSize)

sizeInRange(f, size) ==
    /\ ~(f.MaxSize > 0 /\ size > f.MaxSize)
    /\ ~(f.MinSize > 0 /\ size < f.MinSize)

\* One call of Match, a check at a time.  c is the call: its arguments, the
\* check it stands before (pc), the outcomes of the checks made and, once
\* it has returned (pc = "done"), the value returned.
MatchStep_SkipsGlob(f, c) ==
    CASE c.pc = "size" ->
            IF sizeInRange(f, c.size)
            THEN [c EXCEPT !.pc = "ext", !.checks = Append(@, TRUE)]
            ELSE [c EXCEPT !.pc = "done", !.checks = Append(@, FALSE), !.ret = FALSE]
      [] c.pc = "ext" ->
            IF matchExtension(f, c.path)
            THEN [c EXCEPT !.pc = "done", !.checks = Append(@, TRUE), !.ret = TRUE]
            ELSE [c EXCEPT !.pc = "done", !.checks = Append(@, FALSE), !.ret = FALSE]

MatchStep(f, c) ==
    CASE c.pc = "size" ->
            IF sizeInRange(f, c.size)
            THEN [c EXCEPT !.pc = "ext", !.checks = Append(@, TRUE)]
            ELSE [c EXCEPT !.pc = "done", !.checks = Append(@, FALSE), !.ret = FALSE]
      [] c.pc = "ext" ->
            IF matchExtension(f, c.path)
            THEN [c EXCEPT !.pc = "glob", !.checks = Append(@, TRUE)]
            ELSE [c EXCEPT !.pc = "done", !.checks = Append(@, FALSE), !.ret = FALSE]
      [] c.pc = "glob" ->
            IF matchGlob(f, c.path)
            THEN [c EXCEPT !.pc = "done", !.checks = Append(@, TRUE), !.ret = TRUE]
            ELSE [c EXCEPT !.pc = "done", !.checks = Append(@, FALSE), !.ret = FALSE]

(***************************************************************************)
(* The file system the scanner runs on.  Its shape is fixed; which entry   *)
(* carries a fault is chosen at start.                                     *)
(*   fault "stat": Stat, Lstat and DirEntry.Info fail on the entry         *)
(*   fault "read": a file opens but reading it fails after a prefix;       *)
(*                 a directory cannot be listed                            *)
(***************************************************************************)
Root == <<"d">>
FileA == Join(Root, <<"a", ".", "t">>)
FileB == Join(Root, <<"b", ".", "l">>)
SubDir == Join(Root, <<"s">>)
FileC == Join(SubDir, <<"c", ".", "t">>)
FileD == Join(SubDir, <<"e", ".", "l">>)

Entries == {Root, FileA, FileB, SubDir, FileC, FileD}

Tree ==
    [p \in Entries |->
        CASE p = Root   -> [kind |-> "dir", names |-> <<<<"a", ".", "t">>, <<"b", ".", "l">>, <<"s">>>>,
                            data |-> <<>>]
          [] p = FileA  -> [kind |-> "file", names |-> <<>>, data |-> <<1>>]
          [] p = FileB  -> [kind |-> "file", names |-> <<>>, data |-> <<1, 2>>]
          [] p = SubDir -> [kind |-> "dir", names |-> <<<<"c", ".", "t">>, <<"e", ".", "l">>>>,
                            data |-> <<>>]
          [] p = FileC  -> [kind |-> "file", names |-> <<>>, data |-> <<3>>]
          [] p = FileD  -> [kind |-> "file", names |-> <<>>, data |-> <<4, 5, 6>>]]

Faults == {"ok", "stat", "read"}

\* what may happen to a file between the moment a scan lists it and the
\* moment its task stats it:
\*   "grown":   a byte was appended to it
\*   "swapped": os.Stat now finds a directory at the path (the file was
\*              replaced; or the entry is a symbolic link to a directory,
\*              which the walk's Lstat does not follow and os.Stat does)
Changes == {"stat", "read", "grown", "swapped"}

FaultMaps ==
    {m \in [Entries -> Faults] : Cardinality({p \in Entries : m[p] # "ok"}) <= MaxFaults}

NoFaultsIn(fs) == \A p \in Entries : fs[p] = "ok"

\* os.Stat / os.Lstat / DirEntry.Info: the entry's metadata, or an error
Stat(fs, path) ==
    IF path \notin Entries THEN [err |-> "ErrNotExist", isDir |-> FALSE, size |-> 0]
    ELSE IF fs[path] = "stat" THEN [err |-> "ErrPermission", isDir |-> FALSE, size |-> 0]
    ELSE IF fs[path] = "swapped" THEN [err |-> Nil, isDir |-> TRUE, size |-> 0]
    ELSE IF fs[path] = "grown"
    THEN [err |-> Nil, isDir |-> Tree[path].kind = "dir", size |-> Len(Tree[path].data) + 1]
    ELSE [err |-> Nil, isDir |-> Tree[path].kind = "dir", size |-> Len(Tree[path].data)]

\* os.ReadDir: the names of a directory in sorted order, or an error and no
\* names (a directory with either fault cannot be listed)
ReadDir(fs, path) ==
    IF fs[path] # "ok" THEN [err |-> "ErrPermission", names |-> <<>>]
    ELSE [err |-> Nil, names |-> Tree[path].names]

\* os.Open followed by the reads io.Copy makes: the chunks delivered and the
\* error, if any, that ends the reading
OpenRead(fs, path) ==
    IF path \notin Entries THEN [openErr |-> "ErrNotExist", chunks |-> <<>>, readErr |-> Nil]
    ELSE IF Tree[path].kind = "dir" \/ fs[path] = "swapped"
    THEN [openErr |-> Nil, chunks |-> <<>>, readErr |-> "EISDIR"]
    ELSE IF fs[path] = "grown"
    THEN [openErr |-> Nil, chunks |-> <<Tree[path].data \o <<0>>>>, readErr |-> Nil]
    ELSE IF fs[path] = "read"
    THEN [openErr |-> Nil, chunks |-> <<SubSeq(Tree[path].data, 1, 1)>>, readErr |-> "EIO"]
    ELSE [openErr |-> Nil, chunks |-> <<Tree[path].data>>, readErr |-> Nil]

(***************************************************************************)
(* Bytes, and the two text encodings of a digest.                          *)
(***************************************************************************)
Min(a, b) == IF a < b THEN a ELSE b

\* bit k of the byte x
Bit(x, k) == (x \div (2 ^ k)) % 2

\* x ^ y for every two bytes (a table, so that it is computed once)
XorTable ==
    [x \in 0..255 |-> [y \in 0..255 |->
        LET X(k) == ((Bit(x, k) + Bit(y, k)) % 2) * (2 ^ k)
        IN X(0) + X(1) + X(2) + X(3) + X(4) + X(5) + X(6) + X(7)]]

\* x ^ y on two bytes
BXor(x, y) == XorTable[x][y]

\* byte(v >> (8 * k))
RECURSIVE ByteOf(_, _)
ByteOf(v, k) == IF k = 0 THEN v % 256 ELSE ByteOf(v \div 256, k - 1)

\* the eight bytes of a 64-bit value, least significant first
LittleEndian64(v) == [k \in 1..8 |-> ByteOf(v, k - 1)]

\* binary.BigEndian.PutUint64: the eight bytes, most significant first
BigEndian64(v) == [k \in 1..8 |-> ByteOf(v, 8 - k)]

HexDigits ==
    <<"0", "1", "2", "3", "4", "5", "6", "7", "8", "9", "a", "b", "c", "d", "e", "f">>

\* hex.EncodeToString: two lowercase digits per byte, high nibble first
HexEncodeToString(sum) ==
    [i \in 1..(2 * Len(sum)) |->
        IF i % 2 = 1 THEN HexDigits[(sum[(i + 1) \div 2] \div 16) + 1]
        ELSE HexDigits[(sum[i \div 2] % 16) + 1]]

\* the alphabet of base64.StdEncoding
Base64Alphabet ==
    <<"A", "B", "C", "D", "E", "F", "G", "H", "I", "J", "K", "L", "M",
      "N", "O", "P", "Q", "R", "S", "T", "U", "V", "W", "X", "Y", "Z",
      "a", "b", "c", "d", "e", "f", "g", "h", "i", "j", "k", "l", "m",
      "n", "o", "p", "q", "r", "s", "t", "u", "v", "w", "x", "y", "z",
      "0", "1", "2", "3", "4", "5", "6", "7", "8", "9", "+", "/">>

\* base64.StdEncoding.EncodeToString: four characters per three bytes, the
\* last group padded with '='
RECURSIVE Base64EncodeToString(_)
Base64EncodeToString(sum) ==
    LET A(v) == Base64Alphabet[v + 1]
    IN IF Len(sum) = 0 THEN <<>>
       ELSE IF Len(sum) = 1
       THEN <<A(sum[1] \div 4), A((sum[1] % 4) * 16), "=", "=">>
       ELSE IF Len(sum) = 2
       THEN <<A(sum[1] \div 4), A((sum[1] % 4) * 16 + sum[2] \div 16),
              A((sum[2] % 16) * 4), "=">>
       ELSE <<A(sum[1] \div 4), A((sum[1] % 4) * 16 + sum[2] \div 16),
              A((sum[2] % 16) * 4 + sum[3] \div 64), A(sum[3] % 64)>>
            \o Base64EncodeToString(SubSeq(sum, 4, Len(sum)))

(***************************************************************************)
(* QuickXorHash (pkg/quickxorhash).  The accumulator is the 1760-byte      *)
(* buffer `data`, indexed from 0 as in the code, and the byte counter      *)
(* `size`, a uint64 that the inputs explored here keep far from 2^64.      *)
(***************************************************************************)
Size == 20
shift == 11
widthInBits == 8 * Size
dataSize == shift * widthInBits

\* &quickXorHash{}
QuickXorNew == [data |-> [i \in 0..(dataSize - 1) |-> 0], size |-> 0]

\* xorBytes(data[off:], src): the buffer afterwards; min(len(data) - off,
\* len(src)) bytes are changed
xorBytes(data, off, src) ==
    [i \in 0..(dataSize - 1) |->
        IF i >= off /\ i - off < Len(src) THEN BXor(src[i - off + 1], data[i]) ELSE data[i]]

\* the loop of Write: while at least dataSize bytes remain after p[:i], xor
\* the next dataSize of them over the whole buffer
RECURSIVE WriteBlocks(_, _, _)
WriteBlocks(data, p, i) ==
    IF Len(p) - i >= dataSize
    THEN WriteBlocks(xorBytes(data, 0, SubSeq(p, i + 1, Len(p))), p, i + dataSize)
    ELSE [data |-> data, i |-> i]

\* a Write that starts every call at the head of the buffer
QuickXorWrite_FromHead(q, p) ==
    LET b == WriteBlocks(q.data, p, 0)
    IN [data |-> xorBytes(b.data, 0, SubSeq(p, b.i + 1, Len(p))),
        size |-> q.size + Len(p)]

\* quickXorHash.Write
QuickXorWrite(q, p) ==
    LET lastRemain == q.size % dataSize
        d1 == IF lastRemain # 0 THEN xorBytes(q.data, lastRemain, p) ELSE q.data
        i1 == IF lastRemain # 0 THEN Min(dataSize - lastRemain, Len(p)) ELSE 0
        d2 == IF i1 # Len(p)
              THEN LET b == WriteBlocks(d1, p, i1)
                   IN xorBytes(b.data, 0, SubSeq(p, b.i + 1, Len(p)))
              ELSE d1
    IN [data |-> d2, size |-> q.size + Len(p)]

\* n zero bytes
RECURSIVE Zeros(_)
Zeros(n) == IF n = 0 THEN <<>> ELSE Append(Zeros(n - 1), 0)

\* the body of the loop of checkSum for the buffer position st.i; st.h is
\* the array h, whose element h[k] of the code is st.h[k + 1]
checkSumStep(st, data) ==
    LET sh == (st.i * 11) % 160
        shiftBytes == sh \div 8
        shiftBits == sh % 8
        shifted == data[st.i] * (2 ^ shiftBits)
    IN [h |-> [st.h EXCEPT ![shiftBytes + 1] = BXor(@, shifted % 256),
                           ![shiftBytes + 2] = BXor(@, (shifted \div 256) % 256)],
        i |-> st.i + 1]

\* the iterations st.i..hi of the loop of checkSum, in order (the range is
\* halved so that the evaluation does not nest dataSize deep)
RECURSIVE checkSumLoop(_, _, _)
checkSumLoop(st, data, hi) ==
    IF st.i > hi THEN st
    ELSE IF st.i = hi THEN checkSumStep(st, data)
    ELSE checkSumLoop(checkSumLoop(st, data, (st.i + hi) \div 2), data, hi)

\* a checkSum that drops the bits shifted past the last byte
checkSum_NoWrap(q) ==
    LET h1 == checkSumLoop([h |-> Zeros(Size + 1), i |-> 0], q.data, dataSize - 1).h
        d == LittleEndian64(q.size)
    IN [k \in 1..(Size + 1) |->
           IF k > Size - 8 /\ k <= Size THEN BXor(h1[k], d[k - (Size - 8)]) ELSE h1[k]]

\* quickXorHash.checkSum: the Size+1 bytes h[0..Size], as a sequence
checkSum(q) ==
    LET h1 == checkSumLoop([h |-> Zeros(Size + 1), i |-> 0], q.data, dataSize - 1).h
        h2 == [h1 EXCEPT ![1] = BXor(@, h1[Size + 1])]
        d == LittleEndian64(q.size)
    IN [k \in 1..(Size + 1) |->
           IF k > Size - 8 /\ k <= Size THEN BXor(h2[k], d[k - (Size - 8)]) ELSE h2[k]]

\* a Sum that folds the length into the buffer it reads
QuickXorSum_InPlace(q, b) ==
    LET hash == checkSum(q)
    IN [q |-> [q EXCEPT !.data[0] = BXor(@, q.size % 256)],
        out |-> b \o SubSeq(hash, 1, Size)]

\* quickXorHash.Sum: the accumulator afterwards and the slice returned
QuickXorSum(q, b) ==
    LET hash == checkSum(q)
    IN [q |-> q, out |-> b \o SubSeq(hash, 1, Size)]

\* a Reset that clears the buffer and keeps the counter
QuickXorReset_KeepsSize(q) == [QuickXorNew EXCEPT !.size = q.size]

\* quickXorHash.Reset
QuickXorReset(q) == QuickXorNew

(***************************************************************************)
(* Hashers and the multi-hash fan-out (package hasher).                    *)
(***************************************************************************)
\* the descriptors registered by the init functions
md5Hasher == [Name |-> "md5", OutputSize |-> 16, IsBase64 |-> FALSE]
sha1Hasher == [Name |-> "sha1", OutputSize |-> 20, IsBase64 |-> FALSE]
sha256Hasher == [Name |-> "sha256", OutputSize |-> 32, IsBase64 |-> FALSE]
sha512Hasher == [Name |-> "sha512", OutputSize |-> 64, IsBase64 |-> FALSE]
crc32Hasher == [Name |-> "crc32", OutputSize |-> 4, IsBase64 |-> FALSE]
xxh3Hasher == [Name |-> "xxh3", OutputSize |-> 8, IsBase64 |-> FALSE]
xxh128Hasher == [Name |-> "xxh128", OutputSize |-> 16, IsBase64 |-> FALSE]
quickxorHasher == [Name |-> "quickxor", OutputSize |-> Size, IsBase64 |-> TRUE]
blake3Hasher == [Name |-> "blake3", OutputSize |-> 32, IsBase64 |-> FALSE]

Registry ==
    {md5Hasher, sha1Hasher, sha256Hasher, sha512Hasher, crc32Hasher,
     xxh3Hasher, xxh128Hasher, quickxorHasher, blake3Hasher}

(***************************************************************************)
(* The accumulators of the libraries (crypto/md5 ... hash/crc32 and        *)
(* zeebo/xxh3) are outside the repository.  Their state is the bytes they  *)
(* have absorbed, and their digest is some fixed function of the algorithm *)
(* and of these bytes; LibDigest stands for it.                            *)
(***************************************************************************)
LibWrite(acc, p) == acc \o p

\* the position-weighted sum of the bytes b[lo..hi], kept below 65521
RECURSIVE Weigh(_, _, _)
Weigh(b, lo, hi) ==
    IF lo > hi THEN 0
    ELSE IF lo = hi THEN (lo * b[lo]) % 65521
    ELSE LET mid == (lo + hi) \div 2
         IN (Weigh(b, lo, mid) + Weigh(b, mid + 1, hi)) % 65521

LibSeed(name) ==
    CASE name = "md5" -> 3
      [] name = "sha1" -> 5
      [] name = "sha256" -> 7
      [] name = "sha512" -> 11
      [] name = "crc32" -> 13
      [] name = "xxh3" -> 17
      [] name = "xxh128" -> 19
      [] name = "blake3" -> 29
      [] OTHER -> 23

\* the `size` bytes a library digest of the absorbed bytes consists of
LibDigest(name, size, acc) ==
    LET w == Weigh(acc, 1, Len(acc))
    IN [k \in 1..size |-> (LibSeed(name) * k + w * (k + 1) + Len(acc)) % 256]

\* xxh3.Hasher.Sum64 and the halves of Sum128, as numbers
LibSum64(name, acc) == LibSeed(name) * 1000003 + Weigh(acc, 1, Len(acc)) * 257 + Len(acc)

\* xxh3Hash64.Write / xxh3Hash128.Write
xxh3Write(x, p) == [h |-> LibWrite(x.h, p)]

\* xxh3Hash64.Sum / xxh3Hash128.Sum: the adapter afterwards and the slice
\* returned (for xxh128 the high word, then the low word)
xxh3Sum(name, x, b) ==
    [q |-> x,
     out |-> IF name = "xxh128"
             THEN b \o BigEndian64(LibSum64("xxh128", x.h)) \o BigEndian64(LibSum64("xxh3", x.h))
             ELSE b \o BigEndian64(LibSum64(name, x.h))]

\* xxh3Hash64.Reset / xxh3Hash128.Reset
xxh3Reset(x) == [h |-> <<>>]

IsXxh(name) == name \in {"xxh3", "xxh128"}

\* Hasher.New: a fresh accumulator of the algorithm
HashNew(h) ==
    IF h.Name = "quickxor" THEN QuickXorNew
    ELSE IF IsXxh(h.Name) THEN [h |-> <<>>]
    ELSE <<>>

\* hash.Hash.Write on the accumulator of the algorithm
HashWrite(h, acc, chunk) ==
    IF h.Name = "quickxor" THEN QuickXorWrite(acc, chunk)
    ELSE IF IsXxh(h.Name) THEN xxh3Write(acc, chunk)
    ELSE LibWrite(acc, chunk)

\* hash.Hash.Sum(nil): the digest bytes
HashSum(h, acc) ==
    IF h.Name = "quickxor" THEN QuickXorSum(acc, <<>>).out
    ELSE IF IsXxh(h.Name) THEN xxh3Sum(h.Name, acc, <<>>).out
    ELSE LibDigest(h.Name, h.OutputSize, acc)

\* hash.Hash.Sum(b): the accumulator afterwards and the slice returned
AccSum(h, acc, b) ==
    IF h.Name = "quickxor" THEN QuickXorSum(acc, b)
    ELSE IF IsXxh(h.Name) THEN xxh3Sum(h.Name, acc, b)
    ELSE [q |-> acc, out |-> b \o LibDigest(h.Name, h.OutputSize, acc)]

\* hash.Hash.Reset
AccReset(h, acc) ==
    IF h.Name = "quickxor" THEN QuickXorReset(acc)
    ELSE IF IsXxh(h.Name) THEN xxh3Reset(acc)
    ELSE <<>>

\* an encoder that prints every digest in hexadecimal
Encode_AlwaysHex(h, sum) == HexEncodeToString(sum)

\* if h.IsBase64() { base64.StdEncoding.EncodeToString(sum) } else
\* { hex.EncodeToString(sum) }
Encode(h, sum) ==
    IF h.IsBase64 THEN Base64EncodeToString(sum) ELSE HexEncodeToString(sum)

\* a multi-writer that stops after its first writer
MultiWrite_FirstWriterOnly(hashers, accs, chunk) ==
    [i \in 1..Len(accs) |->
        IF i = 1 THEN HashWrite(hashers[i], accs[i], chunk) ELSE accs[i]]

\* io.MultiWriter.Write: the chunk goes to every accumulator in turn
MultiWrite(hashers, accs, chunk) ==
    [i \in 1..Len(accs) |-> HashWrite(hashers[i], accs[i], chunk)]

\* io.Copy into the multi-writer: one Write per chunk read
RECURSIVE CopyAll(_, _, _)
CopyAll(hashers, accs, chunks) ==
    IF chunks = <<>> THEN accs
    ELSE CopyAll(hashers, MultiWrite(hashers, accs, Head(chunks)), Tail(chunks))

\* hashes[i] = h.New() for every hasher
NewAll(hashers) == [i \in 1..Len(hashers) |-> HashNew(hashers[i])]

\* the accumulators when io.Copy returns
HashReaderAccs(r, hashers) == CopyAll(hashers, NewAll(hashers), r.chunks)

\* the results map: the encoded Sum of every accumulator under its hasher's
\* name (a later hasher of the same name overwrites an earlier one)
Digests(hashers, accs) ==
    [n \in {hashers[i].Name : i \in 1..Len(hashers)} |->
        LET i == CHOOSE j \in 1..Len(hashers) :
                    /\ hashers[j].Name = n
                    /\ \A k \in 1..Len(hashers) : hashers[k].Name = n => k <= j
        IN Encode(hashers[i], HashSum(hashers[i], accs[i]))]

\* a HashReader that keeps the digests of the bytes read before a read error
HashReader_KeepsPartial(r, hashers) ==
    IF Len(hashers) = 0
    THEN [hashes |-> NilMap, err |-> "no hashers provided", cause |-> Nil]
    ELSE [hashes |-> Digests(hashers, HashReaderAccs(r, hashers)),
          err |-> IF r.readErr # Nil THEN "failed to read data" ELSE Nil,
          cause |-> r.readErr]

\* a HashReader that takes the end of the reading for the end of the data
HashReader_IgnoresReadError(r, hashers) ==
    IF Len(hashers) = 0
    THEN [hashes |-> NilMap, err |-> "no hashers provided", cause |-> Nil]
    ELSE [hashes |-> Digests(hashers, HashReaderAccs(r, hashers)),
          err |-> Nil, cause |-> Nil]

\* HashReader: the map and the error returned; `cause` is the error that
\* err wraps (%w)
HashReader(r, hashers) ==
    IF Len(hashers) = 0
    THEN [hashes |-> NilMap, err |-> "no hashers provided", cause |-> Nil]
    ELSE IF r.readErr # Nil
    THEN [hashes |-> NilMap, err |-> "failed to read data", cause |-> r.readErr]
    ELSE [hashes |-> Digests(hashers, HashReaderAccs(r, hashers)),
          err |-> Nil, cause |-> Nil]

HashFile(fs, path, hashers) ==
    LET f == OpenRead(fs, path)
    IN IF f.openErr # Nil
       THEN [hashes |-> NilMap, err |-> "failed to open file", cause |-> f.openErr]
       ELSE HashReader(f, hashers)

(***************************************************************************)
(* The registry of hashers and Parse (package hasher).  The registry maps  *)
(* a lower-case name, as a string of characters, to a descriptor.          *)
(***************************************************************************)
\* two descriptors a program may register besides the built-in ones: one
\* under a name that differs from a built-in name by its case only, one
\* under a new name
md5UpperHasher == [Name |-> "MD5", OutputSize |-> 16, IsBase64 |-> TRUE]
adlerHasher == [Name |-> "Adler", OutputSize |-> 4, IsBase64 |-> FALSE]

\* the characters of a name
Spelling(name) ==
    CASE name = "md5" -> <<"m", "d", "5">>
      [] name = "sha1" -> <<"s", "h", "a", "1">>
      [] name = "sha256" -> <<"s", "h", "a", "2", "5", "6">>
      [] name = "sha512" -> <<"s", "h", "a", "5", "1", "2">>
      [] name = "crc32" -> <<"c", "r", "c", "3", "2">>
      [] name = "xxh3" -> <<"x", "x", "h", "3">>
      [] name = "xxh128" -> <<"x", "x", "h", "1", "2", "8">>
      [] name = "quickxor" -> <<"q", "u", "i", "c", "k", "x", "o", "r">>
      [] name = "blake3" -> <<"b", "l", "a", "k", "e", "3">>
      [] name = "MD5" -> <<"M", "D", "5">>
      [] name = "Adler" -> <<"A", "d", "l", "e", "r">>

\* make(map[string]Hasher)
EmptyRegistry == [k \in {} |-> md5Hasher]

\* a Register that files the hasher under its name as it is written
Register_AsGiven(reg, h) ==
    [k \in DOMAIN reg \cup {Spelling(h.Name)} |->
        IF k = Spelling(h.Name) THEN h ELSE reg[k]]

\* Register: registry[strings.ToLower(h.Name())] = h
Register(reg, h) ==
    [k \in DOMAIN reg \cup {ToLower(Spelling(h.Name))} |->
        IF k = ToLower(Spelling(h.Name)) THEN h ELSE reg[k]]

\* Get: h, ok := registry[strings.ToLower(name)]
Get(reg, name) ==
    IF ToLower(name) \in DOMAIN reg
    THEN [h |-> <<reg[ToLower(name)]>>, ok |-> TRUE]
    ELSE [h |-> <<>>, ok |-> FALSE]

\* List: the keys of the registry, sorted
List(reg) == SortStrings(DOMAIN reg)

\* a loop that appends a hasher for every entry, seen before or not
RECURSIVE ParseLoop_KeepsDuplicates(_, _, _, _, _)
ParseLoop_KeepsDuplicates(reg, parts, i, hashers, seen) ==
    IF i > Len(parts)
    THEN IF Len(hashers) = 0
         THEN [hashers |-> <<>>, err |-> "no valid algorithms specified", name |-> <<>>]
         ELSE [hashers |-> hashers, err |-> Nil, name |-> <<>>]
    ELSE LET name == TrimSpace(ToLower(parts[i]))
         IN IF name = <<>>
            THEN ParseLoop_KeepsDuplicates(reg, parts, i + 1, hashers, seen)
            ELSE IF ~Get(reg, name).ok
            THEN [hashers |-> <<>>, err |-> "unknown algorithm", name |-> name]
            ELSE ParseLoop_KeepsDuplicates(reg, parts, i + 1,
                                           Append(hashers, Get(reg, name).h[1]), seen)

\* a loop that passes over the entries it does not know
RECURSIVE ParseLoop_SkipsUnknown(_, _, _, _, _)
ParseLoop_SkipsUnknown(reg, parts, i, hashers, seen) ==
    IF i > Len(parts)
    THEN IF Len(hashers) = 0
         THEN [hashers |-> <<>>, err |-> "no valid algorithms specified", name |-> <<>>]
         ELSE [hashers |-> hashers, err |-> Nil, name |-> <<>>]
    ELSE LET name == TrimSpace(ToLower(parts[i]))
         IN IF name = <<>> \/ name \in seen \/ ~Get(reg, name).ok
            THEN ParseLoop_SkipsUnknown(reg, parts, i + 1, hashers, seen)
            ELSE ParseLoop_SkipsUnknown(reg, parts, i + 1,
                                        Append(hashers, Get(reg, name).h[1]),
                                        seen \cup {name})

\* the loop of Parse from parts[i] on, and what Parse returns after it: the
\* hashers and the error; `name` is the name an unknown-algorithm error
\* carries (the error also lists List())
RECURSIVE ParseLoop(_, _, _, _, _)
ParseLoop(reg, parts, i, hashers, seen) ==
    IF i > Len(parts)
    THEN IF Len(hashers) = 0
         THEN [hashers |-> <<>>, err |-> "no valid algorithms specified", name |-> <<>>]
         ELSE [hashers |-> hashers, err |-> Nil, name |-> <<>>]
    ELSE LET name == TrimSpace(ToLower(parts[i]))
         IN IF name = <<>>
            THEN ParseLoop(reg, parts, i + 1, hashers, seen)
            ELSE IF name \in seen
            THEN ParseLoop(reg, parts, i + 1, hashers, seen)
            ELSE IF ~Get(reg, name).ok
            THEN [hashers |-> <<>>, err |-> "unknown algorithm", name |-> name]
            ELSE ParseLoop(reg, parts, i + 1, Append(hashers, Get(reg, name).h[1]),
                           seen \cup {name})

\* Parse
Parse(reg, names) ==
    IF names = <<>>
    THEN [hashers |-> <<>>, err |-> "no algorithms specified", name |-> <<>>]
    ELSE ParseLoop(reg, Split(names, ","), 1, <<>>, {})

(***************************************************************************)
(* Scanner: the per-file routines (package scanner).                       *)
(***************************************************************************)
SkipOnError == 0
FailOnError == 1

\* a filter that lets every path through
Accepts_Everything(sc, path, size) == TRUE

\* sc.Filter == nil || sc.Filter.Match(path, size)
Accepts(sc, path, size) == sc.Filter = <<>> \/ Match(sc.Filter[1], path, size)

\* the path a Result built after hashing carries
OutputPath(sc, path) == IF sc.AbsolutePath THEN Abs(path) ELSE path

\* Scanner.ScanFile: the sequence of the one Result returned, empty when the
\* filter rejects the file (a nil *Result)
ScanFile(sc, fs, path) ==
    LET info == Stat(fs, path)
    IN IF info.err # Nil
       THEN <<[Path |-> path, Size |-> 0, Hashes |-> NilMap, Error |-> info.err]>>
       ELSE IF info.isDir
       THEN <<[Path |-> path, Size |-> 0, Hashes |-> NilMap, Error |-> "ErrInvalid"]>>
       ELSE IF ~Accepts(sc, path, info.size)
       THEN <<>>
       ELSE LET h == HashFile(fs, path, sc.Hashers)
            IN <<[Path |-> OutputPath(sc, path), Size |-> info.size,
                  Hashes |-> h.hashes, Error |-> h.err]>>

\* a processFile that makes the checks of ScanFile
processFile_AsScanFile(sc, fs, path) == ScanFile(sc, fs, path)

\* Scanner.processFile: as ScanFile, without the directory and filter checks
processFile(sc, fs, path) ==
    LET info == Stat(fs, path)
    IN IF info.err # Nil
       THEN <<[Path |-> path, Size |-> 0, Hashes |-> NilMap, Error |-> info.err]>>
       ELSE LET h == HashFile(fs, path, sc.Hashers)
            IN <<[Path |-> OutputPath(sc, path), Size |-> info.size,
                  Hashes |-> h.hashes, Error |-> h.err]>>

(***************************************************************************)
(* The state of one scan: a call of ScanFiles(paths) or of ScanDir(Root)   *)
(* and the consumer ranging over the returned channel.                     *)
(***************************************************************************)
VARIABLES
    s,          \* the Scanner: Workers, Filter, Hashers, OnError, Recursive, AbsolutePath
    fsys,       \* the fault of every file-system entry
    mode,       \* "files": ScanFiles(paths); "dir": ScanDir(Root)
    pc,         \* where the dispatcher goroutine stands
    todo,       \* ScanDir: the entries WalkDir still has to visit, in visiting order
    files,      \* the paths to dispatch: the argument of ScanFiles, or ScanDir's files
    tasks,      \* the per-file goroutines started so far, in dispatch order
    sem,        \* the number of tokens in the semaphore channel
    wg,         \* the counter of the WaitGroup
    results,    \* the buffered result channel
    closes,     \* how many times close(results) has run
    panicked,   \* a goroutine sent on the closed channel
    consumed    \* the Results the consumer has received, in order

vars == <<s, fsys, mode, pc, todo, files, tasks, sem, wg, results, closes, panicked, consumed>>

(***************************************************************************)
(* The state of the other runs of this module.  Each specification moves   *)
(* its own variables and leaves the others at rest.                        *)
(***************************************************************************)
VARIABLES
    paths,      \* one run of the command: cfg.Paths
    main,       \* where main stands
    chans,      \* resultChans: the state of every scan main started
    mrg,        \* the goroutine of mergeResultChannels
    outClosed,  \* close(out) has run
    merged      \* the Results main has received from the merged channel

cliVars == <<paths, main, chans, mrg, outClosed, merged>>

VARIABLES
    reader,     \* one call of HashReader: the reader
    hs,         \* its hashers
    got,        \* what HashReader(reader, hs) returned
    alone       \* what HashReader(reader, [hs[i]]) returned, for every i

hashVars == <<reader, hs, got, alone>>

VARIABLES
    alg,        \* one hash.Hash under test: its algorithm
    acc,        \* the accumulator
    hist,       \* the chunks written since it was made or last reset
    wiped,      \* the chunks written before the last Reset
    sums        \* what the calls of Sum since the last Write or Reset returned

qxVars == <<alg, acc, hist, wiped, sums>>

VARIABLES
    registry,   \* the registry of package hasher
    call        \* the last call of Register, Get, List or Parse and its result

regVars == <<registry, call>>

VARIABLES
    flt,        \* one FilterOptions shared by the callers of Match
    callers     \* the calls of Match on it: arguments, position, outcome

fltVars == <<flt, callers>>

VARIABLES
    tk          \* one path on its way through ScanFiles or ScanDir

taskVars == <<tk>>

VARIABLES
    pass        \* one call of HashReader, a read or a write at a time

passVars == <<pass>>

VARIABLES
    sz          \* one call of parseSize: the argument and what it returned

sizeVars == <<sz>>

\* the first stream of a scan that is run again under the other error policy
VARIABLES
    rerun       \* the stream of the first run, once the scan runs a second time

rerunVars == <<rerun>>

cmdVars == <<passVars, sizeVars, rerunVars>>

libVars == <<regVars, fltVars, taskVars, cmdVars>>

ScanAtRest ==
    /\ mode = "none"
    /\ pc = "none"
    /\ todo = <<>>
    /\ files = <<>>
    /\ tasks = <<>>
    /\ sem = 0
    /\ wg = 0
    /\ results = <<>>
    /\ closes = 0
    /\ panicked = FALSE
    /\ consumed = <<>>

CliAtRest ==
    /\ paths = <<>>
    /\ main = "none"
    /\ chans = <<>>
    /\ mrg = <<>>
    /\ outClosed = FALSE
    /\ merged = <<>>

HashAtRest ==
    /\ reader = <<>>
    /\ hs = <<>>
    /\ got = <<>>
    /\ alone = <<>>

QxAtRest ==
    /\ alg = <<>>
    /\ acc = <<>>
    /\ hist = <<>>
    /\ wiped = <<>>
    /\ sums = <<>>

RegAtRest ==
    /\ registry = <<>>
    /\ call = <<>>

FltAtRest ==
    /\ flt = <<>>
    /\ callers = <<>>

TaskAtRest == tk = <<>>

PassAtRest == pass = <<>>

SizeAtRest == sz = <<>>

RerunAtRest == rerun = <<>>

CmdAtRest == PassAtRest /\ SizeAtRest /\ RerunAtRest

LibAtRest == RegAtRest /\ FltAtRest /\ TaskAtRest /\ CmdAtRest

\* the Scanners explored
FilterChoices ==
    { <<>>,
      <<[NoFilter EXCEPT !.IncludeExts = <<<<"T">>>>]>>,
      <<[NoFilter EXCEPT !.MaxSize = 1]>> }

\* (the scans run two library algorithms: what a scan does with a digest
\* does not depend on the algorithm)
HasherChoices == { <<md5Hasher, crc32Hasher>> }

Scanners ==
    [Workers : 1..MaxWorkers, Filter : FilterChoices, Hashers : HasherChoices,
     OnError : {SkipOnError, FailOnError}, Recursive : BOOLEAN, AbsolutePath : BOOLEAN]

\* the explicit path lists explored
Candidates == {FileA, FileB, SubDir}

RECURSIVE SeqsUpTo(_, _)
SeqsUpTo(S, n) ==
    IF n = 0 THEN {<<>>}
    ELSE LET P == SeqsUpTo(S, n - 1)
         IN P \cup {Append(q, x) : q \in {r \in P : Len(r) = n - 1}, x \in S}

PathLists == SeqsUpTo(Candidates, MaxPaths)

Range(q) == {q[i] : i \in 1..Len(q)}

\* ScanFiles does not read Recursive, and only the faults of listed entries
\* matter to it (a directory in the list is never read): the other values
\* would repeat the same runs.
\* the state after ScanFiles(files) or ScanDir(Root) of a Scanner of SS has
\* made its channel and started its goroutine
ScanInit(SS) ==
    /\ s \in SS
    /\ mode \in {"files", "dir"}
    /\ fsys \in FaultMaps
    /\ IF mode = "files"
       THEN /\ files \in PathLists
            /\ s.Recursive
            /\ \A p \in Entries : fsys[p] # "ok" => p \in Range(files)
            /\ \A p \in Entries : fsys[p] = "read" => Tree[p].kind = "file"
            /\ pc = "dispatch"
            /\ todo = <<>>
       ELSE /\ files = <<>>
            /\ pc = "walk"
            /\ todo = <<Root>>
    /\ tasks = <<>>
    /\ sem = 0
    /\ wg = 0
    /\ results = <<>>
    /\ closes = 0
    /\ panicked = FALSE
    /\ consumed = <<>>
    /\ CliAtRest
    /\ HashAtRest
    /\ QxAtRest
    /\ LibAtRest

Init == ScanInit(Scanners)

\* a result channel one slot larger
ResultsCap_OneMore == s.Workers * 2 + 1

\* cap(results): make(chan *Result, s.Workers*2)
ResultsCap == s.Workers * 2

\* a semaphore one slot larger
SemCap_OneMore == s.Workers + 1

\* cap(sem): make(chan struct{}, s.Workers)
SemCap == s.Workers

\* a wait that does not wait
WaitReturns_AtOnce == TRUE

\* wg.Wait() returns: the counter is zero
WaitReturns == wg = 0

\* a task that keeps failures to itself
ShouldSend_OnlySuccess(r) == r # <<>> /\ r[1].Error = Nil

\* if result != nil { results <- result }
ShouldSend(r) == r # <<>>

\* results <- r can proceed: the buffer has room; a channel without buffer
\* (Workers = 0) hands the Result to the consumer, which waits in its range
\* loop unless it still holds the Result before
CanSend == Len(results) < (IF ResultsCap = 0 THEN 1 ELSE ResultsCap)

(***************************************************************************)
(* ScanDir: the walk.  One step is one call of walkDir on the next entry:  *)
(* the call of walkFn, and for a directory the listing of its children.    *)
(* A step that sends a failure Result waits for room in the channel.       *)
(***************************************************************************)
FailureResult(path, err) == [Path |-> path, Size |-> 0, Hashes |-> NilMap, Error |-> err]

\* what visiting the entry `path` does:
\*   abort: walkFn returned the error (FailOnError), WalkDir returns it
\*   send:  the failure Result walkFn sends (SkipOnError), if any
\*   add:   the path walkFn appends to files, if any
\*   push:  the children WalkDir visits next
VisitNothing == [abort |-> Nil, send |-> <<>>, add |-> <<>>, push |-> <<>>]

\* a walkFn that returns every error, whatever the policy
OnErr_AlwaysAbort(path, err) == [VisitNothing EXCEPT !.abort = err]

\* walkFn on an error: return it (FailOnError), or send a failure Result
OnErr(path, err) ==
    IF s.OnError = FailOnError THEN [VisitNothing EXCEPT !.abort = err]
    ELSE [VisitNothing EXCEPT !.send = <<FailureResult(path, err)>>]

\* a walkFn that skips every directory below the root
SkipsDir_Always(path) == path # Root

\* a walkFn that never skips a directory
SkipsDir_Never(path) == FALSE

\* walkFn on a directory: !s.Recursive && path != dir
SkipsDir(path) == ~s.Recursive /\ path # Root

Visit(path) ==
    LET none == VisitNothing
        info == Stat(fsys, path)
    IN IF path = Root /\ info.err # Nil THEN OnErr(path, info.err)
       ELSE IF Tree[path].kind = "dir"
       THEN IF SkipsDir(path) THEN none
            ELSE LET rd == ReadDir(fsys, path)
                 IN IF rd.err # Nil THEN OnErr(path, rd.err)
                    ELSE [none EXCEPT
                            !.push = [i \in 1..Len(rd.names) |-> Join(path, rd.names[i])]]
       ELSE IF info.err # Nil THEN OnErr(path, info.err)
       ELSE IF ~Accepts(s, path, info.size) THEN none
       ELSE [none EXCEPT !.add = <<path>>]

\* a ScanDir that starts to dispatch after the first entry
AfterVisit_DispatchEarly(rest) == "dispatch"

\* filepath.WalkDir returns when no entry is left to visit; ScanDir goes on
\* to its dispatch loop only then
AfterVisit(rest) == IF rest = <<>> THEN "dispatch" ELSE "walk"

WalkStep ==
    /\ pc = "walk"
    /\ ~panicked
    /\ todo # <<>>
    /\ LET v == Visit(Head(todo))
       IN IF v.abort # Nil
          THEN /\ pc' = "abort"
               /\ todo' = <<>>
               /\ UNCHANGED <<files, results>>
          ELSE /\ (v.send # <<>> => CanSend)
               /\ results' = results \o v.send
               /\ files' = files \o v.add
               /\ todo' = v.push \o Tail(todo)
               /\ pc' = AfterVisit(todo')
    /\ UNCHANGED <<s, fsys, mode, tasks, sem, wg, closes, panicked, consumed>>
    /\ UNCHANGED <<cliVars, hashVars, qxVars, libVars>>

\* the error WalkDir returned: the first fault the walk met
WalkError ==
    IF Stat(fsys, Root).err # Nil THEN Stat(fsys, Root).err ELSE "ErrPermission"

\* a ScanDir that reports the walk error and goes on with the files found
AbortSend_ThenDispatch ==
    /\ pc = "abort"
    /\ ~panicked
    /\ CanSend
    /\ results' = Append(results, FailureResult(Root, WalkError))
    /\ pc' = "dispatch"
    /\ UNCHANGED <<s, fsys, mode, todo, files, tasks, sem, wg, closes, panicked, consumed>>
    /\ UNCHANGED <<cliVars, hashVars, qxVars, libVars>>

\* ScanDir after a failed walk: send the Result of the walk error, return, close
AbortSend ==
    /\ pc = "abort"
    /\ ~panicked
    /\ CanSend
    /\ results' = Append(results, FailureResult(Root, WalkError))
    /\ closes' = closes + 1
    /\ pc' = "closed"
    /\ UNCHANGED <<s, fsys, mode, todo, files, tasks, sem, wg, panicked, consumed>>
    /\ UNCHANGED <<cliVars, hashVars, qxVars, libVars>>

(***************************************************************************)
(* The dispatch loop of ScanFiles and of ScanDir.                          *)
(***************************************************************************)
\* a dispatch loop that a failed task stops under FailOnError
Dispatch_StopsAfterFailure ==
    /\ pc = "dispatch"
    /\ ~panicked
    /\ Len(tasks) < Len(files)
    /\ sem < SemCap
    /\ ~(s.OnError = FailOnError
          /\ \E i \in 1..Len(tasks) : tasks[i].res # <<>> /\ tasks[i].res[1].Error # Nil)
    /\ sem' = sem + 1
    /\ wg' = wg + 1
    /\ tasks' = Append(tasks, [pc |-> "run", res |-> <<>>])
    /\ UNCHANGED <<s, fsys, mode, pc, todo, files, results, closes, panicked, consumed>>
    /\ UNCHANGED <<cliVars, hashVars, qxVars, libVars>>

\* a dispatch loop that starts the task without a slot
Dispatch_WithoutSlot ==
    /\ pc = "dispatch"
    /\ ~panicked
    /\ Len(tasks) < Len(files)
    /\ sem' = sem + 1
    /\ wg' = wg + 1
    /\ tasks' = Append(tasks, [pc |-> "run", res |-> <<>>])
    /\ UNCHANGED <<s, fsys, mode, pc, todo, files, results, closes, panicked, consumed>>
    /\ UNCHANGED <<cliVars, hashVars, qxVars, libVars>>

\* sem <- struct{}{}; wg.Add(1); go func() {...}()
Dispatch ==
    /\ pc = "dispatch"
    /\ ~panicked
    /\ Len(tasks) < Len(files)
    /\ sem < SemCap
    /\ sem' = sem + 1
    /\ wg' = wg + 1
    /\ tasks' = Append(tasks, [pc |-> "run", res |-> <<>>])
    /\ UNCHANGED <<s, fsys, mode, pc, todo, files, results, closes, panicked, consumed>>
    /\ UNCHANGED <<cliVars, hashVars, qxVars, libVars>>

\* wg.Wait() returns, the goroutine returns, the deferred close(results) runs
WaitClose ==
    /\ pc = "dispatch"
    /\ ~panicked
    /\ Len(tasks) = Len(files)
    /\ WaitReturns
    /\ closes' = closes + 1
    /\ pc' = "closed"
    /\ UNCHANGED <<s, fsys, mode, todo, files, tasks, sem, wg, results, panicked, consumed>>
    /\ UNCHANGED <<cliVars, hashVars, qxVars, libVars>>

(***************************************************************************)
(* One per-file goroutine.                                                 *)
(***************************************************************************)
\* result := s.ScanFile(path)  (ScanFiles)  /  s.processFile(path)  (ScanDir)
TaskScan(i) ==
    /\ ~panicked
    /\ tasks[i].pc = "run"
    /\ LET r == IF mode = "files" THEN ScanFile(s, fsys, files[i])
                ELSE processFile(s, fsys, files[i])
       IN tasks' = [tasks EXCEPT ![i] = [pc |-> IF ShouldSend(r) THEN "send" ELSE "exit", res |-> r]]
    /\ UNCHANGED <<s, fsys, mode, pc, todo, files, sem, wg, results, closes, panicked, consumed>>
    /\ UNCHANGED <<cliVars, hashVars, qxVars, libVars>>

\* results <- result; a send on a closed channel panics.  In ScanFiles the
\* return that follows a failure under FailOnError only ends this goroutine.
TaskSend(i) ==
    /\ ~panicked
    /\ tasks[i].pc = "send"
    /\ IF closes > 0
       THEN /\ panicked' = TRUE
            /\ UNCHANGED <<tasks, results>>
       ELSE /\ CanSend
            /\ results' = results \o tasks[i].res
            /\ tasks' = [tasks EXCEPT ![i].pc = "exit"]
            /\ UNCHANGED panicked
    /\ UNCHANGED <<s, fsys, mode, pc, todo, files, sem, wg, closes, consumed>>
    /\ UNCHANGED <<cliVars, hashVars, qxVars, libVars>>

\* a deferred function that forgets to give the slot back
TaskExit_KeepsSlot(i) ==
    /\ ~panicked
    /\ tasks[i].pc = "exit"
    /\ wg' = wg - 1
    /\ tasks' = [tasks EXCEPT ![i].pc = "done"]
    /\ UNCHANGED <<s, fsys, mode, pc, todo, files, sem, results, closes, panicked, consumed>>
    /\ UNCHANGED <<cliVars, hashVars, qxVars, libVars>>

\* the deferred function: <-sem; wg.Done()
TaskExit(i) ==
    /\ ~panicked
    /\ tasks[i].pc = "exit"
    /\ sem' = sem - 1
    /\ wg' = wg - 1
    /\ tasks' = [tasks EXCEPT ![i].pc = "done"]
    /\ UNCHANGED <<s, fsys, mode, pc, todo, files, results, closes, panicked, consumed>>
    /\ UNCHANGED <<cliVars, hashVars, qxVars, libVars>>

(***************************************************************************)
(* The consumer: for result := range ch { results = append(results, r) }   *)
(***************************************************************************)
Recv ==
    /\ ~panicked
    /\ results # <<>>
    /\ consumed' = Append(consumed, Head(results))
    /\ results' = Tail(results)
    /\ UNCHANGED <<s, fsys, mode, pc, todo, files, tasks, sem, wg, closes, panicked>>
    /\ UNCHANGED <<cliVars, hashVars, qxVars, libVars>>

Next ==
    \/ WalkStep
    \/ AbortSend
    \/ Dispatch
    \/ WaitClose
    \/ \E i \in 1..Len(tasks) : TaskScan(i)
    \/ \E i \in 1..Len(tasks) : TaskSend(i)
    \/ \E i \in 1..Len(tasks) : TaskExit(i)
    \/ Recv

Spec == Init /\ [][Next]_vars

(***************************************************************************)
(* One run of the command (cmd/fhash/main.go): main stats every argument,  *)
(* starts ScanFiles on the files and one ScanDir per directory, all on the *)
(* one Scanner s, and ranges over the channel mergeResultChannels returns. *)
(* Every scan has its own semaphore, wait group and result channel.        *)
(***************************************************************************)
\* longest argument list of the command
MaxArgs == 2

ArgCandidates == {FileA, FileB, SubDir}

ArgLists == SeqsUpTo(ArgCandidates, MaxArgs) \ {<<>>}

\* the state of one scan: the fields of Spec's single scan, and `sent`, the
\* record of everything sent on its channel so far
NewScan(kind, dir, list) ==
    [kind |-> kind, dir |-> dir, pc |-> IF kind = "files" THEN "dispatch" ELSE "walk",
     files |-> list, tasks |-> <<>>, sem |-> 0, wg |-> 0,
     results |-> <<>>, sent |-> <<>>, closes |-> 0]

\* the arguments os.Stat fails on / says are directories / says are files
StatFails(p) == Stat(fsys, p).err # Nil

IsDirArg(p) == ~StatFails(p) /\ Stat(fsys, p).isDir

IsFileArg(p) == ~StatFails(p) /\ ~Stat(fsys, p).isDir

\* resultChans: ScanFiles(files) when there are files, then ScanDir(dir) for
\* every directory
ResultChans ==
    LET list == SelectSeq(paths, IsFileArg)
        dirs == SelectSeq(paths, IsDirArg)
    IN (IF Len(list) > 0 THEN <<NewScan("files", <<>>, list)>> ELSE <<>>)
          \o [i \in 1..Len(dirs) |-> NewScan("dir", dirs[i], <<>>)]

\* (one algorithm: the run does nothing with the digests)
CliInitOn(lists) ==
    /\ s \in {[sc EXCEPT !.Hashers = <<crc32Hasher>>] : sc \in Scanners}
    /\ s.Filter = <<>>
    /\ s.Recursive
    /\ ~s.AbsolutePath
    /\ paths \in lists
    /\ fsys \in FaultMaps
    /\ \A p \in Entries :
          \/ fsys[p] = "ok"
          \/ /\ fsys[p] = "stat"
             /\ p \in Range(paths)
             /\ \A d \in Range(paths) : ~HasPrefix(p, d \o <<Separator>>)
          \/ /\ fsys[p] = "read"
             /\ Tree[p].kind = "file"
             /\ \E d \in Range(paths) : p = d \/ HasPrefix(p, d \o <<Separator>>)
    /\ main = "stat"
    /\ chans = <<>>
    /\ mrg = <<>>
    /\ outClosed = FALSE
    /\ merged = <<>>
    /\ ScanAtRest
    /\ HashAtRest
    /\ QxAtRest
    /\ LibAtRest

CliInit == CliInitOn(ArgLists)

\* main, from the loop over cfg.Paths to the call of mergeResultChannels:
\* under FailOnError a failing os.Stat exits before any scan is started
MainStart ==
    /\ main = "stat"
    /\ IF s.OnError = FailOnError /\ \E i \in 1..Len(paths) : StatFails(paths[i])
       THEN /\ main' = "exit"
            /\ UNCHANGED <<chans, mrg>>
       ELSE /\ main' = "range"
            /\ chans' = ResultChans
            /\ mrg' = [i |-> 1, r |-> <<>>]
    /\ UNCHANGED <<paths, outClosed, merged>>
    /\ UNCHANGED <<vars, hashVars, qxVars, libVars>>

\* the files a walk without faults and without a filter collects
RECURSIVE WalkFiles(_)
WalkFiles(visits) ==
    IF visits = <<>> THEN <<>>
    ELSE LET v == Visit(Head(visits))
         IN v.add \o WalkFiles(v.push \o Tail(visits))

\* ScanDir: filepath.WalkDir collects the files
SrcWalk(k) ==
    /\ main = "range"
    /\ chans[k].pc = "walk"
    /\ chans' = [chans EXCEPT ![k].files = WalkFiles(<<chans[k].dir>>),
                              ![k].pc = "dispatch"]
    /\ UNCHANGED <<paths, main, mrg, outClosed, merged>>
    /\ UNCHANGED <<vars, hashVars, qxVars, libVars>>

\* sem <- struct{}{}; wg.Add(1); go func() {...}()
SrcDispatch(k) ==
    /\ main = "range"
    /\ chans[k].pc = "dispatch"
    /\ Len(chans[k].tasks) < Len(chans[k].files)
    /\ chans[k].sem < SemCap
    /\ chans' = [chans EXCEPT ![k].sem = @ + 1,
                              ![k].wg = @ + 1,
                              ![k].tasks = Append(@, [pc |-> "run", res |-> <<>>])]
    /\ UNCHANGED <<paths, main, mrg, outClosed, merged>>
    /\ UNCHANGED <<vars, hashVars, qxVars, libVars>>

\* wg.Wait() returns, the goroutine returns, the deferred close(results) runs
SrcWaitClose(k) ==
    /\ main = "range"
    /\ chans[k].pc = "dispatch"
    /\ Len(chans[k].tasks) = Len(chans[k].files)
    /\ chans[k].wg = 0
    /\ chans' = [chans EXCEPT ![k].closes = @ + 1, ![k].pc = "closed"]
    /\ UNCHANGED <<paths, main, mrg, outClosed, merged>>
    /\ UNCHANGED <<vars, hashVars, qxVars, libVars>>

\* result := s.ScanFile(path)  (ScanFiles)  /  s.processFile(path)  (ScanDir)
SrcTaskScan(k, i) ==
    /\ main = "range"
    /\ chans[k].tasks[i].pc = "run"
    /\ LET r == IF chans[k].kind = "files" THEN ScanFile(s, fsys, chans[k].files[i])
                ELSE processFile(s, fsys, chans[k].files[i])
       IN chans' = [chans EXCEPT ![k].tasks[i] =
                        [pc |-> IF ShouldSend(r) THEN "send" ELSE "exit", res |-> r]]
    /\ UNCHANGED <<paths, main, mrg, outClosed, merged>>
    /\ UNCHANGED <<vars, hashVars, qxVars, libVars>>

\* the *Result task i of scan k sends: the pointer is told apart by <<k, i>>
Sent(k, i) == [src |-> k, task |-> i, res |-> chans[k].tasks[i].res[1]]

\* results <- result
SrcTaskSend(k, i) ==
    /\ main = "range"
    /\ chans[k].tasks[i].pc = "send"
    /\ Len(chans[k].results) < ResultsCap
    /\ chans' = [chans EXCEPT ![k].results = Append(@, Sent(k, i)),
                              ![k].sent = Append(@, Sent(k, i)),
                              ![k].tasks[i].pc = "exit"]
    /\ UNCHANGED <<paths, main, mrg, outClosed, merged>>
    /\ UNCHANGED <<vars, hashVars, qxVars, libVars>>

\* the deferred function: <-sem; wg.Done()
SrcTaskExit(k, i) ==
    /\ main = "range"
    /\ chans[k].tasks[i].pc = "exit"
    /\ chans' = [chans EXCEPT ![k].sem = @ - 1,
                              ![k].wg = @ - 1,
                              ![k].tasks[i].pc = "done"]
    /\ UNCHANGED <<paths, main, mrg, outClosed, merged>>
    /\ UNCHANGED <<vars, hashVars, qxVars, libVars>>

(***************************************************************************)
(* mergeResultChannels: one goroutine ranges over the channels in order    *)
(* and forwards every Result to the unbuffered channel out; mrg.i is the   *)
(* channel it ranges over and mrg.r the Result it holds.                   *)
(***************************************************************************)
\* a range that ends as soon as the channel is empty
RangeEnds_WhenEmpty(ch) == ch.results = <<>>

\* for r := range ch ends: the channel is closed and empty
RangeEnds(ch) == ch.results = <<>> /\ ch.closes > 0

\* a merge that stops after its first channel
ChansDone_AfterFirst == mrg.i > Min(1, Len(chans))

\* for _, ch := range chans ends
ChansDone == mrg.i > Len(chans)

\* a merge that takes the next Result from whichever source has one
MergeRecv_AnySource ==
    /\ main = "range"
    /\ ~outClosed
    /\ ~ChansDone
    /\ mrg.r = <<>>
    /\ \E k \in mrg.i..Len(chans) :
          /\ chans[k].results # <<>>
          /\ mrg' = [mrg EXCEPT !.r = <<Head(chans[k].results)>>]
          /\ chans' = [chans EXCEPT ![k].results = Tail(@)]
    /\ UNCHANGED <<paths, main, outClosed, merged>>
    /\ UNCHANGED <<vars, hashVars, qxVars, libVars>>

\* r := <-ch
MergeRecv ==
    /\ main = "range"
    /\ ~outClosed
    /\ ~ChansDone
    /\ mrg.r = <<>>
    /\ chans[mrg.i].results # <<>>
    /\ mrg' = [mrg EXCEPT !.r = <<Head(chans[mrg.i].results)>>]
    /\ chans' = [chans EXCEPT ![mrg.i].results = Tail(@)]
    /\ UNCHANGED <<paths, main, outClosed, merged>>
    /\ UNCHANGED <<vars, hashVars, qxVars, libVars>>

\* out <- r, received by main's for result := range results
MergeSend ==
    /\ main = "range"
    /\ ~outClosed
    /\ mrg.r # <<>>
    /\ merged' = merged \o mrg.r
    /\ mrg' = [mrg EXCEPT !.r = <<>>]
    /\ UNCHANGED <<paths, main, chans, outClosed>>
    /\ UNCHANGED <<vars, hashVars, qxVars, libVars>>

\* the inner range ends: on to the next channel
MergeNextChan ==
    /\ main = "range"
    /\ ~outClosed
    /\ ~ChansDone
    /\ mrg.r = <<>>
    /\ RangeEnds(chans[mrg.i])
    /\ mrg' = [mrg EXCEPT !.i = @ + 1]
    /\ UNCHANGED <<paths, main, chans, outClosed, merged>>
    /\ UNCHANGED <<vars, hashVars, qxVars, libVars>>

\* the outer range ends, the goroutine returns, the deferred close(out) runs
MergeClose ==
    /\ main = "range"
    /\ ~outClosed
    /\ ChansDone
    /\ mrg.r = <<>>
    /\ outClosed' = TRUE
    /\ UNCHANGED <<paths, main, chans, mrg, merged>>
    /\ UNCHANGED <<vars, hashVars, qxVars, libVars>>

\* hasError: main has received a failure Result
HasError == \E j \in 1..Len(merged) : merged[j].res.Error # Nil

\* a main that takes every failure Result for fatal
ExitsAfterRange_AnyPolicy == HasError

\* if hasError && s.OnError == scanner.FailOnError { os.Exit(1) }
ExitsAfterRange == HasError /\ s.OnError = FailOnError

\* main's range over the merged channel ends
MainDone ==
    /\ main = "range"
    /\ outClosed
    /\ main' = IF ExitsAfterRange THEN "exit" ELSE "done"
    /\ UNCHANGED <<paths, chans, mrg, outClosed, merged>>
    /\ UNCHANGED <<vars, hashVars, qxVars, libVars>>

CliNext ==
    \/ MainStart
    \/ \E k \in 1..Len(chans) : SrcWalk(k)
    \/ \E k \in 1..Len(chans) : SrcDispatch(k)
    \/ \E k \in 1..Len(chans) : SrcWaitClose(k)
    \/ \E k \in 1..Len(chans) : \E i \in 1..Len(chans[k].tasks) : SrcTaskSend(k, i)
    \/ \E k \in 1..Len(chans) : \E i \in 1..Len(chans[k].tasks) : SrcTaskExit(k, i)
    \/ MergeRecv
    \/ MergeSend
    \/ MergeNextChan
    \/ MergeClose
    \/ MainDone
    \/ \E k \in 1..Len(chans) : \E i \in 1..Len(chans[k].tasks) : SrcTaskScan(k, i)

allVars == <<vars, cliVars, hashVars, qxVars, libVars>>

SpecCli == CliInit /\ [][CliNext]_allVars

(***************************************************************************)
(* One call of HashReader(reader, hs), followed by one call of HashReader  *)
(* with every hasher of hs alone on a reader that delivers the same.  The  *)
(* reader is a file of the file system (reader.path, read as ScanFile and  *)
(* HashFile read it) or a reader over given bytes that delivers them in    *)
(* chunks and may fail after some of them.                                 *)
(***************************************************************************)
\* longest list of hashers explored
MaxHashers == 2

\* the bytes of "hello"
Hello == <<104, 101, 108, 108, 111>>

DataChoices == {<<>>, Hello, <<255, 0>>}

\* the readers over the bytes b: all at once, in two chunks, failing after
\* the first chunk, failing at once
BytesReaders(b) ==
    LET cut == Len(b) \div 2
        whole == IF b = <<>> THEN <<>> ELSE <<b>>
    IN {[path |-> <<>>, data |-> b, chunks |-> whole, readErr |-> Nil],
        [path |-> <<>>, data |-> b,
         chunks |-> <<SubSeq(b, 1, cut), SubSeq(b, cut + 1, Len(b))>>, readErr |-> Nil],
        [path |-> <<>>, data |-> b, chunks |-> <<SubSeq(b, 1, cut)>>, readErr |-> "EIO"],
        [path |-> <<>>, data |-> b, chunks |-> <<>>, readErr |-> "EIO"]}

\* the reader HashFile hands to HashReader for the file p
FileReader(fs, p) ==
    [path |-> p, data |-> Tree[p].data,
     chunks |-> OpenRead(fs, p).chunks, readErr |-> OpenRead(fs, p).readErr]

\* the lists of distinct registered hashers, the empty list included
HasherLists == {l \in SeqsUpTo(Registry, MaxHashers) : \A i, j \in 1..Len(l) : l[i] = l[j] => i = j}

HashInit ==
    /\ hs \in HasherLists
    /\ fsys \in FaultMaps
    /\ \A p \in Entries : fsys[p] # "ok" => (fsys[p] = "read" /\ p \in {FileA, FileB})
    /\ reader \in {FileReader(fsys, p) : p \in {FileA, FileB}}
                    \cup (IF NoFaultsIn(fsys)
                          THEN UNION {BytesReaders(b) : b \in DataChoices}
                          ELSE {})
    /\ (reader.path # <<>> /\ \E p \in Entries : fsys[p] # "ok") => fsys[reader.path] # "ok"
    /\ got = <<>>
    /\ alone = [i \in 1..Len(hs) |-> <<>>]
    /\ s = [Workers |-> 1, Filter |-> <<>>, Hashers |-> hs, OnError |-> SkipOnError,
            Recursive |-> TRUE, AbsolutePath |-> FALSE]
    /\ ScanAtRest
    /\ CliAtRest
    /\ QxAtRest
    /\ LibAtRest

\* HashReader(reader, hs): what it returns (res), the accumulators it has
\* fed (accs) and the bytes their Sum returns (sums); for a file also the
\* Result ScanFile builds from the same reading (scan)
HashAll ==
    /\ reader # <<>>
    /\ got = <<>>
    /\ got' = <<[res |-> HashReader(reader, hs),
                 accs |-> HashReaderAccs(reader, hs),
                 sums |-> [i \in 1..Len(hs) |-> HashSum(hs[i], HashReaderAccs(reader, hs)[i])],
                 scan |-> IF reader.path # <<>> THEN ScanFile(s, fsys, reader.path) ELSE <<>>]>>
    /\ UNCHANGED <<reader, hs, alone>>
    /\ UNCHANGED <<vars, cliVars, qxVars, libVars>>

\* HashReader(reader, [hs[i]]), for the hashers in their order
HashAlone(i) ==
    /\ got # <<>>
    /\ alone[i] = <<>>
    /\ \A j \in 1..(i - 1) : alone[j] # <<>>
    /\ alone' = [alone EXCEPT ![i] = <<HashReader(reader, <<hs[i]>>)>>]
    /\ UNCHANGED <<reader, hs, got>>
    /\ UNCHANGED <<vars, cliVars, qxVars, libVars>>

HashNext ==
    \/ HashAll
    \/ \E i \in 1..Len(hs) : HashAlone(i)

SpecHash == HashInit /\ [][HashNext]_allVars

(***************************************************************************)
(* One call of HashReader, a step at a time: io.Copy reads a chunk and     *)
(* hands it to the multi-writer, which writes it to the hash.Hash values   *)
(* in the order of the hashers; p is the call:                             *)
(*   pc    where it stands       next  the chunks read so far              *)
(*   cur   the chunk in hand     w     the writers that have received it   *)
(*   accs  the accumulators      log   the reads and writes made, in order *)
(*   res   what the call returned                                          *)
(***************************************************************************)
NewPass ==
    [pc |-> "start", next |-> 0, cur |-> <<>>, w |-> 0, accs |-> <<>>, log |-> <<>>,
     res |-> <<>>]

\* a multi-writer that serves its writers from the last to the first
PassStep_LastWriterFirst(r, hashers, p) ==
    CASE p.pc = "start" ->
            IF Len(hashers) = 0
            THEN [p EXCEPT !.pc = "done",
                           !.res = <<[hashes |-> NilMap, err |-> "no hashers provided",
                                      cause |-> Nil]>>]
            ELSE [p EXCEPT !.pc = "read", !.accs = NewAll(hashers)]
      [] p.pc = "read" ->
            IF p.next < Len(r.chunks)
            THEN [p EXCEPT !.next = @ + 1,
                           !.cur = r.chunks[p.next + 1],
                           !.w = 0,
                           !.log = Append(@, [op |-> "read", k |-> p.next + 1, i |-> 0]),
                           !.pc = IF Len(r.chunks[p.next + 1]) > 0 THEN "write" ELSE "read"]
            ELSE IF r.readErr # Nil
            THEN [p EXCEPT !.pc = "done",
                           !.res = <<[hashes |-> NilMap, err |-> "failed to read data",
                                      cause |-> r.readErr]>>]
            ELSE [p EXCEPT !.pc = "sum"]
      [] p.pc = "write" ->
            LET i == Len(hashers) - p.w
            IN [p EXCEPT !.accs[i] = HashWrite(hashers[i], @, p.cur),
                         !.w = @ + 1,
                         !.log = Append(@, [op |-> "write", k |-> p.next, i |-> i]),
                         !.pc = IF p.w + 1 = Len(hashers) THEN "read" ELSE "write"]
      [] p.pc = "sum" ->
            [p EXCEPT !.pc = "done",
                      !.res = <<[hashes |-> Digests(hashers, p.accs), err |-> Nil,
                                 cause |-> Nil]>>]

\* the next step of HashReader(r, hashers)
PassStep(r, hashers, p) ==
    CASE p.pc = "start" ->
            IF Len(hashers) = 0
            THEN [p EXCEPT !.pc = "done",
                           !.res = <<[hashes |-> NilMap, err |-> "no hashers provided",
                                      cause |-> Nil]>>]
            ELSE [p EXCEPT !.pc = "read", !.accs = NewAll(hashers)]
      [] p.pc = "read" ->
            \* io.Copy: nr, er := src.Read(buf); the chunk is written if nr > 0
            IF p.next < Len(r.chunks)
            THEN [p EXCEPT !.next = @ + 1,
                           !.cur = r.chunks[p.next + 1],
                           !.w = 0,
                           !.log = Append(@, [op |-> "read", k |-> p.next + 1, i |-> 0]),
                           !.pc = IF Len(r.chunks[p.next + 1]) > 0 THEN "write" ELSE "read"]
            ELSE IF r.readErr # Nil
            THEN [p EXCEPT !.pc = "done",
                           !.res = <<[hashes |-> NilMap, err |-> "failed to read data",
                                      cause |-> r.readErr]>>]
            ELSE [p EXCEPT !.pc = "sum"]
      [] p.pc = "write" ->
            \* io.MultiWriter.Write: for _, w := range t.writers { w.Write(p) }
            LET i == p.w + 1
            IN [p EXCEPT !.accs[i] = HashWrite(hashers[i], @, p.cur),
                         !.w = @ + 1,
                         !.log = Append(@, [op |-> "write", k |-> p.next, i |-> i]),
                         !.pc = IF p.w + 1 = Len(hashers) THEN "read" ELSE "write"]
      [] p.pc = "sum" ->
            [p EXCEPT !.pc = "done",
                      !.res = <<[hashes |-> Digests(hashers, p.accs), err |-> Nil,
                                 cause |-> Nil]>>]

\* the hashers of the calls explored: a library hash, the QuickXor hash, an
\* XXH3 adapter
PassHashers == {md5Hasher, quickxorHasher, xxh3Hasher}

PassHasherLists ==
    {l \in SeqsUpTo(PassHashers, MaxHashers) : \A i, j \in 1..Len(l) : l[i] = l[j] => i = j}

PassInit ==
    /\ hs \in PassHasherLists
    /\ reader \in UNION {BytesReaders(b) : b \in DataChoices}
    /\ pass = NewPass
    /\ got = <<>>
    /\ alone = <<>>
    /\ s = [Workers |-> 1, Filter |-> <<>>, Hashers |-> hs, OnError |-> SkipOnError,
            Recursive |-> TRUE, AbsolutePath |-> FALSE]
    /\ fsys = [p \in Entries |-> "ok"]
    /\ ScanAtRest
    /\ CliAtRest
    /\ QxAtRest
    /\ RegAtRest
    /\ FltAtRest
    /\ TaskAtRest
    /\ SizeAtRest
    /\ RerunAtRest

\* h.New() for every hasher, or the return without hashers
PassStart ==
    /\ pass.pc = "start"
    /\ pass' = PassStep(reader, hs, pass)
    /\ UNCHANGED <<vars, cliVars, hashVars, qxVars, regVars, fltVars, taskVars, sizeVars, rerunVars>>

\* io.Copy: src.Read
PassRead ==
    /\ pass.pc = "read"
    /\ pass' = PassStep(reader, hs, pass)
    /\ UNCHANGED <<vars, cliVars, hashVars, qxVars, regVars, fltVars, taskVars, sizeVars, rerunVars>>

\* io.MultiWriter.Write: the next writer
PassWrite ==
    /\ pass.pc = "write"
    /\ pass' = PassStep(reader, hs, pass)
    /\ UNCHANGED <<vars, cliVars, hashVars, qxVars, regVars, fltVars, taskVars, sizeVars, rerunVars>>

\* the loop that collects the results, and the return
PassSum ==
    /\ pass.pc = "sum"
    /\ pass' = PassStep(reader, hs, pass)
    /\ UNCHANGED <<vars, cliVars, hashVars, qxVars, regVars, fltVars, taskVars, sizeVars, rerunVars>>

PassNext ==
    \/ PassStart
    \/ PassRead
    \/ PassWrite
    \/ PassSum

SpecPass == PassInit /\ [][PassNext]_allVars

(***************************************************************************)
(* One accumulator of the packages quickxorhash and hasher (the QuickXor   *)
(* hash or one of the two XXH3 adapters) under calls of Write, Sum and     *)
(* Reset.  hist, wiped and sums record the calls: the chunks written since *)
(* New or the last Reset, the chunks each Reset wiped, and what each Sum   *)
(* since then returned after how many of the chunks.                       *)
(***************************************************************************)
\* calls of Write, Sum and Reset explored on one accumulator
MaxWrites == 2
MaxSums == 2
MaxResets == 1

\* the bytes of " world"
World == <<32, 119, 111, 114, 108, 100>>

\* n bytes that differ from their neighbours and from the bytes dataSize
\* further on
Pattern(n) == [k \in 1..n |-> (7 * k + (k \div 256) + 3) % 256]

\* the chunks written: none, two short ones, one that ends two bytes before
\* the end of the buffer, one of two buffers and three bytes
ChunkChoices == {<<>>, Hello, World, Pattern(dataSize - 2), Pattern(2 * dataSize + 3)}

AlgChoices == {quickxorHasher, xxh3Hasher, xxh128Hasher}

RECURSIVE Flatten(_)
Flatten(ss) == IF ss = <<>> THEN <<>> ELSE Flatten(SubSeq(ss, 1, Len(ss) - 1)) \o ss[Len(ss)]

QxInit ==
    /\ alg \in AlgChoices
    /\ acc = HashNew(alg)
    /\ hist = <<>>
    /\ wiped = <<>>
    /\ sums = <<>>
    /\ s = [Workers |-> 1, Filter |-> <<>>, Hashers |-> <<alg>>, OnError |-> SkipOnError,
            Recursive |-> TRUE, AbsolutePath |-> FALSE]
    /\ fsys = [p \in Entries |-> "ok"]
    /\ ScanAtRest
    /\ CliAtRest
    /\ HashAtRest
    /\ LibAtRest

\* Write(c)
QxWrite(c) ==
    /\ alg # <<>>
    /\ Len(hist) + Len(Flatten(wiped)) < MaxWrites
    /\ acc' = HashWrite(alg, acc, c)
    /\ hist' = Append(hist, c)
    /\ UNCHANGED <<alg, wiped, sums>>
    /\ UNCHANGED <<vars, cliVars, hashVars, libVars>>

\* Sum(nil)
QxSum ==
    /\ alg # <<>>
    /\ Len(sums) < MaxSums
    /\ acc' = AccSum(alg, acc, <<>>).q
    /\ sums' = Append(sums, [n |-> Len(hist), out |-> AccSum(alg, acc, <<>>).out])
    /\ UNCHANGED <<alg, hist, wiped>>
    /\ UNCHANGED <<vars, cliVars, hashVars, libVars>>

\* Reset()
QxReset ==
    /\ alg # <<>>
    /\ Len(wiped) < MaxResets
    /\ acc' = AccReset(alg, acc)
    /\ wiped' = Append(wiped, hist)
    /\ hist' = <<>>
    /\ sums' = <<>>
    /\ UNCHANGED alg
    /\ UNCHANGED <<vars, cliVars, hashVars, libVars>>

QxNext ==
    \/ \E c \in ChunkChoices : QxWrite(c)
    \/ QxSum
    \/ QxReset

SpecQX == QxInit /\ [][QxNext]_allVars

(***************************************************************************)
(* The registry from the start of the program on: the init functions of    *)
(* package hasher register the built-in hashers, in an order the files'    *)
(* names decide; after that the program may register more, and calls Get,  *)
(* List and Parse.                                                         *)
(***************************************************************************)
\* most entries between the commas of an argument of Parse
MaxEntries == 3

\* the scanner of the runs that do not scan
IdleScanner ==
    [Workers |-> 1, Filter |-> <<>>, Hashers |-> <<md5Hasher>>, OnError |-> SkipOnError,
     Recursive |-> TRUE, AbsolutePath |-> FALSE]

HealthyFs == [p \in Entries |-> "ok"]

\* the hashers registered after the start
LateChoices == {md5UpperHasher, adlerHasher, md5Hasher}

\* the entries of the arguments of Parse: names in both cases, with and
\* without spaces around them, blank entries, a name nobody registers
ParseEntries ==
    {<<"m", "d", "5">>, <<"M", "D", "5">>, <<" ", "m", "d", "5">>,
     <<"s", "h", "a", "2", "5", "6">>, <<" ", "s", "h", "a", "2", "5", "6", " ">>,
     <<>>, <<" ">>, <<"n", "o", "p", "e">>}

EntryLists == SeqsUpTo(ParseEntries, MaxEntries)

\* the arguments of Get
GetChoices ==
    {<<"m", "d", "5">>, <<"M", "d", "5">>, <<"M", "D", "5">>, <<"a", "d", "l", "e", "r">>,
     <<"A", "D", "L", "E", "R">>, <<"X", "x", "H", "3">>, <<"n", "o", "p", "e">>}

\* every init function has run
StartupDone == \A h \in Registry : ToLower(Spelling(h.Name)) \in DOMAIN registry

RegInit ==
    /\ registry = EmptyRegistry
    /\ call = <<>>
    /\ s = IdleScanner
    /\ fsys = HealthyFs
    /\ ScanAtRest
    /\ CliAtRest
    /\ HashAtRest
    /\ QxAtRest
    /\ FltAtRest
    /\ TaskAtRest
    /\ CmdAtRest

\* func init() { Register(h) }, once for every built-in hasher
StartupRegister(h) ==
    /\ ToLower(Spelling(h.Name)) \notin DOMAIN registry
    /\ registry' = Register(registry, h)
    /\ call' = <<[op |-> "Register", arg |-> h]>>
    /\ UNCHANGED <<vars, cliVars, hashVars, qxVars, fltVars, taskVars, cmdVars>>

\* Register(h) by the program
DoRegister(h) ==
    /\ StartupDone
    /\ registry' = Register(registry, h)
    /\ call' = <<[op |-> "Register", arg |-> h]>>
    /\ UNCHANGED <<vars, cliVars, hashVars, qxVars, fltVars, taskVars, cmdVars>>

\* the last call was a Register.  (Get, List and Parse leave the registry
\* as it is and `call` holds the last call only, so the calls made after one
\* of them reach the states that the same calls made before it reach.)
Registered == call # <<>> /\ call[1].op = "Register"

\* Get(name)
DoGet(name) ==
    /\ StartupDone
    /\ Registered
    /\ call' = <<[op |-> "Get", arg |-> name, res |-> Get(registry, name)]>>
    /\ UNCHANGED registry
    /\ UNCHANGED <<vars, cliVars, hashVars, qxVars, fltVars, taskVars, cmdVars>>

\* List()
DoList ==
    /\ StartupDone
    /\ Registered
    /\ call' = <<[op |-> "List", res |-> List(registry)]>>
    /\ UNCHANGED registry
    /\ UNCHANGED <<vars, cliVars, hashVars, qxVars, fltVars, taskVars, cmdVars>>

\* Parse(names), names being the entries l joined by commas
DoParse(l) ==
    /\ StartupDone
    /\ Registered
    /\ call' = <<[op |-> "Parse", arg |-> StringsJoin(l, <<",">>), entries |-> l,
                  res |-> Parse(registry, StringsJoin(l, <<",">>))]>>
    /\ UNCHANGED registry
    /\ UNCHANGED <<vars, cliVars, hashVars, qxVars, fltVars, taskVars, cmdVars>>

RegNext ==
    \/ \E h \in Registry : StartupRegister(h)
    \/ \E h \in LateChoices : DoRegister(h)
    \/ \E name \in GetChoices : DoGet(name)
    \/ DoList
    \/ (Registered /\ \E l \in EntryLists : DoParse(l))

SpecReg == RegInit /\ [][RegNext]_allVars

(***************************************************************************)
(* One FilterOptions and the goroutines that call Match on it.  The        *)
(* scans call Match from the walk and from every task, on the one          *)
(* FilterOptions the Scanner points to.                                    *)
(***************************************************************************)
\* goroutines that call Match
MaxCallers == 2

CallerIds == 1..MaxCallers

\* the size limits explored: none, each alone, both
SizeLimits == {<<0, 0>>, <<2, 0>>, <<0, 2>>, <<2, 2>>}

\* the extension lists explored, <<IncludeExts, ExcludeExts>>
ExtLists ==
    { <<<<>>, <<>>>>,
      <<<<<<"T">>>>, <<>>>>,
      <<<<<<".", "t">>, <<".", "l">>>>, <<<<".", "t">>>>>>,
      <<<<>>, <<<<".", "t">>>>>> }

\* the pattern lists explored, <<IncludeGlobs, ExcludeGlobs>>
GlobLists ==
    { <<<<>>, <<>>>>,
      <<<<<<"*", ".", "t">>>>, <<>>>>,
      <<<<<<"*", ".", "t">>>>, <<<<"a", "*">>>>>>,
      <<<<>>, <<<<"a", "*">>>>>>,
      <<<<<<"d", "/", "*">>>>, <<>>>> }

SharedFilters ==
    { [MaxSize |-> z[1], MinSize |-> z[2], IncludeExts |-> e[1], ExcludeExts |-> e[2],
       IncludeGlobs |-> g[1], ExcludeGlobs |-> g[2]] :
          z \in SizeLimits, e \in ExtLists, g \in GlobLists }

\* the arguments of Match explored
UpperT == <<"a", ".", "T">>
Plain == <<"x">>
MatchPaths == {FileA, UpperT, Plain}
MatchSizes == 1..3

IdleCaller == [path |-> <<>>, size |-> 0, pc |-> "idle", checks |-> <<>>, ret |-> FALSE,
               overlap |-> FALSE]

\* the caller is inside Match
InMatch(c) == callers[c].pc \in {"size", "ext", "glob"}

FltInit ==
    /\ flt \in SharedFilters
    /\ callers = [c \in CallerIds |-> IdleCaller]
    /\ s = IdleScanner
    /\ fsys = HealthyFs
    /\ ScanAtRest
    /\ CliAtRest
    /\ HashAtRest
    /\ QxAtRest
    /\ RegAtRest
    /\ TaskAtRest
    /\ CmdAtRest

\* caller c calls f.Match(path, size)
FltCall(c, path, size) ==
    /\ callers[c].pc = "idle"
    /\ callers' = [callers EXCEPT ![c] =
                      [path |-> path, size |-> size, pc |-> "size", checks |-> <<>>,
                       ret |-> FALSE, overlap |-> \E d \in CallerIds \ {c} : InMatch(d)]]
    /\ UNCHANGED flt
    /\ UNCHANGED <<vars, cliVars, hashVars, qxVars, regVars, taskVars, cmdVars>>

\* caller c makes the next check of its call
FltStep(c) ==
    /\ InMatch(c)
    /\ callers' = [callers EXCEPT ![c] = MatchStep(flt, @)]
    /\ UNCHANGED flt
    /\ UNCHANGED <<vars, cliVars, hashVars, qxVars, regVars, taskVars, cmdVars>>

FltNext ==
    \/ \E c \in CallerIds, path \in MatchPaths, size \in MatchSizes : FltCall(c, path, size)
    \/ \E c \in CallerIds : FltStep(c)

SpecFilter == FltInit /\ [][FltNext]_allVars

(***************************************************************************)
(* One path on its way through a scan: ScanFiles takes it from its         *)
(* argument, ScanDir from the walk; the scan starts a task for it; the     *)
(* task calls ScanFile (ScanFiles) or processFile (ScanDir).  Between the  *)
(* listing and the task's os.Stat the file system may change.              *)
(***************************************************************************)
\* the scanners of these runs
TaskScanners ==
    {sc \in Scanners : sc.Workers = 1 /\ sc.Recursive /\ sc.Hashers = <<md5Hasher, crc32Hasher>>}

\* the paths a scan may come to dispatch
TaskPaths(src) ==
    IF src = "ScanFiles" THEN {FileA, FileB, FileC, FileD, SubDir}
    ELSE {FileA, FileB, FileC, FileD}

TaskInit ==
    /\ s \in TaskScanners
    /\ fsys \in FaultMaps
    /\ \E src \in {"ScanFiles", "ScanDir"} : \E path \in TaskPaths(src) :
          /\ \A p \in Entries \ {path} : fsys[p] = "ok"
          /\ tk = [src |-> src, path |-> path, pc |-> "list", changed |-> FALSE,
                   info |-> <<>>, res |-> <<>>]
    /\ ScanAtRest
    /\ CliAtRest
    /\ HashAtRest
    /\ QxAtRest
    /\ RegAtRest
    /\ FltAtRest
    /\ CmdAtRest

\* ScanFiles: `for _, path := range paths` dispatches every path.
\* ScanDir: walkFn decides whether the path joins `files`.
TaskList ==
    /\ tk.pc = "list"
    /\ tk' = [tk EXCEPT !.pc = IF tk.src = "ScanFiles" \/ Visit(tk.path).add # <<>>
                                THEN "dispatched" ELSE "dropped"]
    /\ UNCHANGED <<s, fsys>>
    /\ UNCHANGED <<mode, pc, todo, files, tasks, sem, wg, results, closes, panicked, consumed>>
    /\ UNCHANGED <<cliVars, hashVars, qxVars, regVars, fltVars, cmdVars>>

\* the file system changes under the dispatched path
TaskFsChange(x) ==
    /\ tk.pc = "dispatched"
    /\ ~tk.changed
    /\ Tree[tk.path].kind = "file"
    /\ fsys[tk.path] = "ok"
    /\ fsys' = [fsys EXCEPT ![tk.path] = x]
    /\ tk' = [tk EXCEPT !.changed = TRUE]
    /\ UNCHANGED s
    /\ UNCHANGED <<mode, pc, todo, files, tasks, sem, wg, results, closes, panicked, consumed>>
    /\ UNCHANGED <<cliVars, hashVars, qxVars, regVars, fltVars, cmdVars>>

\* result := s.ScanFile(path)  (ScanFiles)  /  s.processFile(path)  (ScanDir);
\* info is what the os.Stat of the task returns
TaskRun ==
    /\ tk.pc = "dispatched"
    /\ tk' = [tk EXCEPT !.pc = "done",
                        !.info = <<Stat(fsys, tk.path)>>,
                        !.res = IF tk.src = "ScanFiles" THEN ScanFile(s, fsys, tk.path)
                                ELSE processFile(s, fsys, tk.path)]
    /\ UNCHANGED <<s, fsys>>
    /\ UNCHANGED <<mode, pc, todo, files, tasks, sem, wg, results, closes, panicked, consumed>>
    /\ UNCHANGED <<cliVars, hashVars, qxVars, regVars, fltVars, cmdVars>>

TaskNext ==
    \/ TaskList
    \/ \E x \in Changes : TaskFsChange(x)
    \/ TaskRun

SpecTask == TaskInit /\ [][TaskNext]_allVars

(***************************************************************************)
(* Vocabulary of the properties.                                           *)
(***************************************************************************)
TaskIds == 1..Len(tasks)

\* the tasks that hold an admission slot: started, slot not yet released
Started == {i \in TaskIds : tasks[i].pc # "done"}

\* every Result sent so far, in the order of sending
Emitted == consumed \o results

\* the Result r is about the entry p
PathIs(r, p) == r.Path = p \/ r.Path = Abs(p)

\* how many Results sent so far are about the entry p
CountPath(p) == Cardinality({k \in 1..Len(Emitted) : PathIs(Emitted[k], p)})

\* how often p stands in the path list
Occurs(p) == Cardinality({i \in 1..Len(files) : files[i] = p})

\* filepath.Dir of a path with a parent
Dir(p) == SubSeq(p, 1, LastSep(p) - 1)

\* the configured filter says no to the entry p at its size
FilterRejects(p) == s.Filter # <<>> /\ ~Match(s.Filter[1], p, Len(Tree[p].data))

\* p can be stat'ed and is a regular file
StatsAsFile(p) == fsys[p] # "stat" /\ Tree[p].kind = "file"

NoFaults == \A e \in Entries : fsys[e] = "ok"

(***************************************************************************)
(* C1: at every moment at most Workers per-file tasks have been started    *)
(* and have not yet released their admission slot.                         *)
(***************************************************************************)
C1_AtMostWorkersInFlight == Cardinality(Started) <= s.Workers

\* two tasks hold the two slots while a third path waits to be admitted
C1_Witness ==
    /\ s.Workers = 2
    /\ Cardinality(Started) = 2
    /\ Len(tasks) < Len(files)

(***************************************************************************)
(* C2: the result channel is closed at most once, only after every         *)
(* dispatched task has finished and handed over its Result, and no task    *)
(* sends on the closed channel.                                            *)
(***************************************************************************)
C2_ClosedOnlyAfterAllDone ==
    /\ closes <= 1
    /\ ~panicked
    /\ closes >= 1 => \A i \in TaskIds : tasks[i].pc = "done"
    /\ \A i \in TaskIds :
          (tasks[i].pc = "done" /\ tasks[i].res # <<>>) =>
              \E k \in 1..Len(Emitted) : Emitted[k] = tasks[i].res[1]

\* ScanFiles closed the channel after three tasks, Results still buffered
C2_Witness ==
    /\ mode = "files"
    /\ closes = 1
    /\ Len(tasks) = 3
    /\ results # <<>>

(***************************************************************************)
(* C3: under FailOnError, once a task has emitted a failure Result no      *)
(* further path is dispatched: with Workers = 1, where a task is started   *)
(* only after the one before it has sent its Result and released the slot, *)
(* no task is started after a task whose Result is a failure.              *)
(***************************************************************************)
C3_NoDispatchAfterFailure ==
    (s.OnError = FailOnError /\ s.Workers = 1) =>
        \A i \in TaskIds : \A j \in TaskIds :
            i < j => ~(tasks[i].res # <<>> /\ tasks[i].res[1].Error # Nil)

(***************************************************************************)
(* C4: under SkipOnError ScanFiles emits exactly one Result per entry of   *)
(* the path list that the filter does not reject, counted with             *)
(* multiplicity, and none for a rejected entry.                            *)
(*   As stated, "rejected" is every entry the filter says no to.  The      *)
(*   amended statement consults the filter only for entries that stat as   *)
(*   regular files: an entry whose stat fails, or a directory, always      *)
(*   yields its one failure Result.                                        *)
(***************************************************************************)
C4_OneResultPerUnrejectedEntry ==
    (mode = "files" /\ s.OnError = SkipOnError /\ pc = "closed") =>
        \A p \in Entries :
            CountPath(p) = IF FilterRejects(p) THEN 0 ELSE Occurs(p)

C4_OneResultPerEntryFilterAfterStat ==
    (mode = "files" /\ s.OnError = SkipOnError) =>
        \A p \in Entries :
            LET want == IF StatsAsFile(p) /\ FilterRejects(p) THEN 0 ELSE Occurs(p)
            IN /\ CountPath(p) <= want
               /\ pc = "closed" => CountPath(p) = want

\* a list with a failing entry listed twice and a rejected file: two failure
\* Results, nothing for the rejected file
C4_Witness ==
    /\ mode = "files"
    /\ s.OnError = SkipOnError
    /\ pc = "closed"
    /\ results = <<>>
    /\ Len(files) = 3
    /\ \E p \in Entries :
          /\ Occurs(p) = 2
          /\ CountPath(p) = 2
          /\ \A k \in 1..Len(consumed) : consumed[k].Error # Nil
    /\ \E q \in Entries : Occurs(q) = 1 /\ StatsAsFile(q) /\ FilterRejects(q)

(***************************************************************************)
(* C5: every Result is exactly one of a failure (Error set, no Hashes) or  *)
(* a success (Error nil, one digest under every selected algorithm name).  *)
(***************************************************************************)
AllResults ==
    {Emitted[k] : k \in 1..Len(Emitted)}
        \cup {tasks[i].res[1] : i \in {j \in TaskIds : tasks[j].res # <<>>}}

IsFailureResult(r) == r.Error # Nil /\ DOMAIN r.Hashes = {}

IsSuccessResult(r) ==
    /\ r.Error = Nil
    /\ DOMAIN r.Hashes # {}
    /\ DOMAIN r.Hashes = {s.Hashers[i].Name : i \in 1..Len(s.Hashers)}

C5_ResultIsTaggedUnion ==
    \A r \in AllResults : IsFailureResult(r) # IsSuccessResult(r)

\* the consumer holds a success and a failure caused by a read error
C5_Witness ==
    /\ \E k \in 1..Len(consumed) : IsSuccessResult(consumed[k])
    /\ \E k \in 1..Len(consumed) :
          IsFailureResult(consumed[k]) /\ consumed[k].Error = "failed to read data"

RegularFiles == {p \in Entries : Tree[p].kind = "file" /\ HasPrefix(p, Root \o <<Separator>>)}

MatchedFiles == {p \in RegularFiles : ~FilterRejects(p)}

ExpectedPaths == {IF s.AbsolutePath THEN Abs(p) ELSE p : p \in MatchedFiles}

SuccessPaths == {Emitted[k].Path : k \in {j \in 1..Len(Emitted) : Emitted[j].Error = Nil}}

C7_RecursiveScanYieldsMatchedFiles ==
    (mode = "dir" /\ s.Recursive /\ NoFaults) =>
        /\ SuccessPaths \subseteq ExpectedPaths
        /\ \A k \in 1..Len(Emitted) : Emitted[k].Path \in ExpectedPaths
        /\ (pc = "closed" /\ results = <<>>) => SuccessPaths = ExpectedPaths

\* the consumer drained a recursive, filtered scan: two Results
C7_Witness ==
    /\ mode = "dir"
    /\ s.Recursive
    /\ NoFaults
    /\ s.Filter # <<>>
    /\ pc = "closed"
    /\ results = <<>>
    /\ Len(consumed) = 2

(***************************************************************************)
(* C8: with Recursive = false ScanDir enumerates, dispatches and reports   *)
(* only immediate children of the root, nothing from a subdirectory.       *)
(***************************************************************************)
ImmediateChild(p) == Dir(p) = Root \/ Dir(p) = Abs(Root)

C8_NonRecursiveStaysAtTopLevel ==
    (mode = "dir" /\ ~s.Recursive) =>
        /\ \A i \in 1..Len(files) : Dir(files[i]) = Root /\ Tree[files[i]].kind = "file"
        /\ \A r \in AllResults : r.Path = Root \/ ImmediateChild(r.Path)
        /\ \A i \in 1..Len(todo) : todo[i] = Root \/ Dir(todo[i]) = Root

\* a non-recursive, unfiltered scan of the fault-free tree ended: the two
\* top-level files and nothing else
C8_Witness ==
    /\ mode = "dir"
    /\ ~s.Recursive
    /\ NoFaults
    /\ s.Filter = <<>>
    /\ pc = "closed"
    /\ results = <<>>
    /\ Len(consumed) = 2

(***************************************************************************)
(* C9: in a ScanDir walk under SkipOnError an entry whose metadata cannot  *)
(* be read yields one failure Result and the walk goes on, so that every   *)
(* other readable accepted file yields its Result; only under FailOnError  *)
(* does such an entry abort the walk.                                      *)
(***************************************************************************)
\* the directories strictly above e
Ancestors(e) == {d \in Entries : Tree[d].kind = "dir" /\ HasPrefix(e, d \o <<Separator>>)}

\* the walk descends into the directory d
Descends(d) == d = Root \/ s.Recursive

\* the walk comes to the entry e
Reached(e) == \A d \in Ancestors(e) : fsys[d] = "ok" /\ Descends(d)

\* the walk cannot read the metadata of e: Lstat or Info fails, or the
\* directory cannot be listed
MetaFault(e) ==
    IF Tree[e].kind = "dir" THEN Descends(e) /\ fsys[e] # "ok"
    ELSE fsys[e] = "stat"

ExpectedCount(e) ==
    IF ~Reached(e) THEN 0
    ELSE IF MetaFault(e) THEN 1
    ELSE IF Tree[e].kind = "dir" THEN 0
    ELSE IF FilterRejects(e) THEN 0
    ELSE 1

C9_WalkSurvivesUnreadableEntry ==
    /\ (mode = "dir" /\ s.OnError = SkipOnError) =>
          /\ pc # "abort"
          /\ \A e \in Entries : CountPath(e) <= ExpectedCount(e)
          /\ pc = "closed" =>
                \A e \in Entries :
                    /\ CountPath(e) = ExpectedCount(e)
                    /\ MetaFault(e) =>
                          \A k \in 1..Len(Emitted) :
                              PathIs(Emitted[k], e) => Emitted[k].Error # Nil
    /\ (mode = "dir" /\ s.OnError = FailOnError /\ \E e \in Entries : Reached(e) /\ MetaFault(e)) =>
          /\ pc # "dispatch"
          /\ tasks = <<>>

\* the walk met a file whose metadata is unreadable and the scan still
\* delivered the failure and the three other files
C9_Witness ==
    /\ mode = "dir"
    /\ s.OnError = SkipOnError
    /\ s.Recursive
    /\ s.Filter = <<>>
    /\ fsys[FileA] = "stat"
    /\ pc = "closed"
    /\ results = <<>>
    /\ Len(consumed) = 4
    /\ consumed[1].Error # Nil
    /\ \A k \in 2..4 : consumed[k].Error = Nil

(***************************************************************************)
(* C10: the result channel is a bounded hand-off: at most 2*Workers        *)
(* Results are buffered, a task that cannot send blocks holding its slot,  *)
(* and so at most 3*Workers files are hashed but not consumed and no       *)
(* further file is started.                                                *)
(***************************************************************************)
\* the tasks whose ScanFile or processFile has returned a Result
Hashed == {i \in TaskIds : tasks[i].res # <<>>}

SentByTasks == Cardinality({i \in Hashed : tasks[i].pc \in {"exit", "done"}})

\* the Results the walk itself sent; they precede every task's Result
SentByWalk == Len(Emitted) - SentByTasks

ConsumedFromTasks == IF Len(consumed) > SentByWalk THEN Len(consumed) - SentByWalk ELSE 0

HashedUnconsumed == Cardinality(Hashed) - ConsumedFromTasks

Blocked == {i \in TaskIds : tasks[i].pc = "send"}

C10_BoundedHandOff ==
    /\ Len(results) <= 2 * s.Workers
    /\ sem = Cardinality(Started)
    /\ Blocked \subseteq Started
    /\ HashedUnconsumed <= 3 * s.Workers
    /\ (Len(results) = 2 * s.Workers /\ Cardinality(Blocked) = s.Workers) =>
          /\ ~ENABLED Dispatch
          /\ \A i \in TaskIds : ~ENABLED TaskScan(i) /\ ~ENABLED TaskSend(i)

\* the consumer has read nothing: two Results buffered, one task blocked
\* with the third, the fourth file waits
C10_Witness ==
    /\ s.Workers = 1
    /\ consumed = <<>>
    /\ Len(results) = 2
    /\ Cardinality(Blocked) = 1
    /\ HashedUnconsumed = 3
    /\ Len(tasks) = 3
    /\ Len(files) = 4

(***************************************************************************)
(* Vocabulary of the properties of a run of the command.                   *)
(***************************************************************************)
ChanIds == 1..Len(chans)

RECURSIVE SemHeld(_)
\* the slots held in the scans 1..k together
SemHeld(k) == IF k = 0 THEN 0 ELSE SemHeld(k - 1) + chans[k].sem

\* the tasks in flight in the whole run: started, slot not yet released
InFlight ==
    Cardinality({<<k, i>> \in ChanIds \X (1..4) :
                    i <= Len(chans[k].tasks) /\ chans[k].tasks[i].pc # "done"})

\* the Results of the merged stream that scan k sent, in merged order
FromChan(k) ==
    LET IsFromK(r) == r.src = k
    IN SelectSeq(merged, IsFromK)

\* the Result of scan k the merge goroutine holds, if any
Held(k) == IF mrg.r # <<>> /\ mrg.r[1].src = k THEN mrg.r ELSE <<>>

\* scan k's channel is closed and nothing of it is left to forward
Drained(k) == chans[k].closes > 0 /\ chans[k].results = <<>> /\ Held(k) = <<>>

(***************************************************************************)
(* C11: in one run of the command with several sources (a batch of files   *)
(* and one or more directories) and worker count W, the file tasks in      *)
(* flight in all the sources together never exceed W.                      *)
(***************************************************************************)
C11_AtMostWorkersAcrossSources ==
    /\ InFlight <= s.Workers
    /\ SemHeld(Len(chans)) <= s.Workers

(***************************************************************************)
(* C12: mergeResultChannels is lossless and keeps every source's order:    *)
(* every Result a source has sent is, exactly once, in the merged stream,  *)
(* in the merge goroutine's hand or still in the source's channel, the     *)
(* merged stream holds nothing else, the Results of one source stand in    *)
(* it in the order the source sent them, and when the merged stream is     *)
(* closed it holds everything every source sent.                           *)
(***************************************************************************)
C12_MergeLosslessInOrder ==
    /\ \A k \in ChanIds :
          /\ chans[k].sent = FromChan(k) \o Held(k) \o chans[k].results
          /\ outClosed => FromChan(k) = chans[k].sent
          /\ outClosed => Len(chans[k].sent) = Len(chans[k].files)
    /\ \A j \in 1..Len(merged) :
          /\ merged[j].src \in ChanIds
          /\ \A j2 \in 1..Len(merged) : merged[j] = merged[j2] => j = j2

\* the first scan's two Results are merged in order and the merge goroutine
\* holds the first Result of the second scan
C12_Witness ==
    /\ Len(chans) = 2
    /\ Len(merged) = 2
    /\ merged[1].src = 1 /\ merged[1].task = 1
    /\ merged[2].src = 1 /\ merged[2].task = 2
    /\ mrg.r # <<>>
    /\ mrg.r[1].src = 2

(***************************************************************************)
(* C13: the merged stream is closed only after every source's channel has  *)
(* been closed and drained, and it is eventually closed when every         *)
(* goroutine keeps running, also when there is no source: as long as main  *)
(* ranges over a merged stream that is not closed some goroutine can take  *)
(* a step, and every step brings the run nearer to its end.                *)
(***************************************************************************)
\* the steps a task in the state t has before it, the forwarding of its
\* Result by the merge goroutine included
TaskStepsLeft(t) ==
    CASE t.pc = "run" -> 5
      [] t.pc = "send" -> 4
      [] t.pc = "exit" -> 1
      [] OTHER -> 0

RECURSIVE TasksStepsLeft(_, _)
TasksStepsLeft(ts, n) ==
    IF n = 0 THEN 0 ELSE TasksStepsLeft(ts, n - 1) + TaskStepsLeft(ts[n])

\* the steps scan c has before it
ScanStepsLeft(c) ==
    LET undispatched == IF c.pc = "walk" THEN Len(WalkFiles(<<c.dir>>))
                        ELSE Len(c.files) - Len(c.tasks)
    IN (IF c.pc = "walk" THEN 1 ELSE 0)
       + (IF c.closes = 0 THEN 1 ELSE 0)
       + 6 * undispatched
       + TasksStepsLeft(c.tasks, Len(c.tasks))
       + 2 * Len(c.results)

RECURSIVE ScansStepsLeft(_)
ScansStepsLeft(k) == IF k = 0 THEN 0 ELSE ScansStepsLeft(k - 1) + ScanStepsLeft(chans[k])

\* the steps the run has before it
StepsLeft ==
    CASE main = "stat" -> 1000
      [] main = "range" ->
            ScansStepsLeft(Len(chans)) + Len(mrg.r) + (Len(chans) + 1 - mrg.i)
                + (IF outClosed THEN 0 ELSE 1) + 1
      [] OTHER -> 0

C13_MergedClosesAfterAllSources ==
    /\ [](outClosed => \A k \in ChanIds : Drained(k))
    /\ []((main = "range" /\ ~outClosed) => ENABLED CliNext)
    /\ [][StepsLeft' < StepsLeft]_allVars

\* the merged stream of two scans was closed after all four Results
C13_Witness ==
    /\ outClosed
    /\ Len(chans) = 2
    /\ Len(merged) = 4
    /\ \A k \in ChanIds : Drained(k) /\ Len(chans[k].sent) = 2


(***************************************************************************)
(* Vocabulary of the properties of HashReader.                             *)
(***************************************************************************)
\* HashReader(reader, hs) has returned without an error
HashedOk == got # <<>> /\ got[1].res.err = Nil

\* the accumulator of hasher h after one Write of the bytes b
Fed(h, b) == HashWrite(h, HashNew(h), b)

\* the place of the character c in an alphabet, counted from 0
PlaceIn(alphabet, c) == (CHOOSE i \in 1..Len(alphabet) : alphabet[i] = c) - 1

Chars(alphabet) == {alphabet[i] : i \in 1..Len(alphabet)}

\* bit n (counted from 0, most significant bit of a byte first) of the bytes
\* sum, 0 past their end
StreamBit(sum, n) ==
    IF n \div 8 >= Len(sum) THEN 0 ELSE Bit(sum[(n \div 8) + 1], 7 - (n % 8))

\* text is the lowercase hexadecimal notation of the bytes sum
IsLowerHexOf(text, sum) ==
    /\ Len(text) = 2 * Len(sum)
    /\ \A k \in 1..Len(text) : text[k] \in Chars(HexDigits)
    /\ \A k \in 1..Len(sum) :
          16 * PlaceIn(HexDigits, text[2 * k - 1]) + PlaceIn(HexDigits, text[2 * k]) = sum[k]

\* text is the standard base64 notation (RFC 4648, padded) of the bytes sum
IsStdBase64Of(text, sum) ==
    LET pad == (3 - (Len(sum) % 3)) % 3
        used == 4 * ((Len(sum) + 2) \div 3) - pad
    IN /\ Len(text) = used + pad
       /\ \A j \in (used + 1)..Len(text) : text[j] = "="
       /\ \A j \in 1..used :
             /\ text[j] \in Chars(Base64Alphabet)
             /\ \A k \in 0..5 :
                   Bit(PlaceIn(Base64Alphabet, text[j]), 5 - k) = StreamBit(sum, 6 * (j - 1) + k)

\* "aCgDG9jwBgAAAAAABQAAAAAAAAA=", the published QuickXorHash of "hello"
HelloQuickXorBase64 ==
    <<"a", "C", "g", "D", "G", "9", "j", "w", "B", "g", "A", "A", "A", "A",
      "A", "A", "B", "Q", "A", "A", "A", "A", "A", "A", "A", "A", "A", "=">>

\* C14: a digest of HashReader(b, S) is the digest that HashReader(b, [A])
\* returns for the same algorithm A alone, and every accumulator of the pass
\* has received exactly the bytes of b, in their order
C14_DigestAsAlone ==
    HashedOk =>
        \A i \in 1..Len(hs) :
            /\ got[1].accs[i] = Fed(hs[i], reader.data)
            /\ alone[i] # <<>> =>
                  /\ alone[i][1].err = Nil
                  /\ got[1].res.hashes[hs[i].Name] = alone[i][1].hashes[hs[i].Name]

\* two hashers have hashed "hello", delivered in two chunks, in one pass, and
\* the second has hashed it alone as well
C14_Witness ==
    /\ HashedOk
    /\ Len(hs) = 2
    /\ hs[2] = quickxorHasher
    /\ reader.data = Hello
    /\ Len(reader.chunks) = 2
    /\ alone[2] # <<>>
    /\ alone[2][1].hashes["quickxor"] = got[1].res.hashes["quickxor"]
    /\ got[1].res.hashes[hs[1].Name] # got[1].res.hashes["quickxor"]

\* C15: when the reading fails, HashReader returns an error that wraps the
\* cause and no map of digests, and ScanFile makes a failure Result of it
C15_ReadFailureNoDigests ==
    (got # <<>> /\ hs # <<>> /\ reader.readErr # Nil) =>
        /\ got[1].res.err = "failed to read data"
        /\ got[1].res.cause = reader.readErr
        /\ got[1].res.hashes = NilMap
        /\ reader.path # <<>> =>
              /\ Len(got[1].scan) = 1
              /\ got[1].scan[1].Path = reader.path
              /\ got[1].scan[1].Error = "failed to read data"
              /\ got[1].scan[1].Hashes = NilMap

\* the reading of a file has failed after some of its bytes
C15_Witness ==
    /\ got # <<>>
    /\ Len(hs) = 2
    /\ reader.path # <<>>
    /\ reader.readErr # Nil
    /\ reader.chunks # <<>>
    /\ got[1].res.err # Nil
    /\ got[1].scan[1].Error # Nil

\* C16: on success the keys of the map are the names of the hashers, and the
\* value of quickxor is the standard base64, the value of every other
\* algorithm the lowercase hexadecimal, of the bytes its Sum returns
C16_KeysAndEncoding ==
    HashedOk =>
        /\ DOMAIN got[1].res.hashes = {hs[i].Name : i \in 1..Len(hs)}
        /\ \A i \in 1..Len(hs) :
              /\ Len(got[1].sums[i]) = hs[i].OutputSize
              /\ IF hs[i].Name = "quickxor"
                 THEN IsStdBase64Of(got[1].res.hashes[hs[i].Name], got[1].sums[i])
                 ELSE IsLowerHexOf(got[1].res.hashes[hs[i].Name], got[1].sums[i])

\* quickxor and md5 have hashed "hello" in one pass
C16_Witness ==
    /\ HashedOk
    /\ hs = <<quickxorHasher, md5Hasher>>
    /\ reader.data = Hello
    /\ got[1].res.hashes["quickxor"] = HelloQuickXorBase64
    /\ Len(got[1].res.hashes["md5"]) = 32

(***************************************************************************)
(* Vocabulary of the properties of the accumulators.                       *)
(***************************************************************************)
IsQuickXor == alg = quickxorHasher

SumIds == 1..Len(sums)

\* the bytes written by the first n calls of Write since New or Reset
HistAt(n) == Flatten(SubSeq(hist, 1, n))

\* a new accumulator after the calls Write(chunks[1]), Write(chunks[2]), ...
RECURSIVE ReplayWrites(_, _)
ReplayWrites(h, chunks) ==
    IF chunks = <<>> THEN HashNew(h)
    ELSE HashWrite(h, ReplayWrites(h, SubSeq(chunks, 1, Len(chunks) - 1)), chunks[Len(chunks)])

\* the step is a call of Sum, of Reset, of Write with no bytes
IsSumStep == Len(sums') = Len(sums) + 1
IsResetStep == Len(wiped') = Len(wiped) + 1
IsEmptyWriteStep == hist' = Append(hist, <<>>)

\* the input bytes whose bit k falls on bit j of the 160: those with an
\* index i such that (11 * i + k) mod 160 = j, which are one index below 160
\* and the indices a multiple of 160 further on
Slot == [j \in 0..159 |-> [k \in 0..7 |-> CHOOSE x \in 0..159 : (11 * x + k) % 160 = j]]

\* bit j of the 160-bit value after the bytes b: the parity of the input bits
\* that fall on it
RefBit(b, j) ==
    Cardinality({e \in (0..7) \X (0..(Len(b) \div 160)) :
                    /\ Slot[j][e[1]] + 160 * e[2] < Len(b)
                    /\ Bit(b[Slot[j][e[1]] + 160 * e[2] + 1], e[1]) = 1}) % 2

\* bit j of the length n as the 64-bit number laid over the last 8 bytes
\* (n is below 2^31 in all that is explored)
LenBit(n, j) == IF j < 96 \/ j - 96 > 30 THEN 0 ELSE (n \div (2 ^ (j - 96))) % 2

\* the reference definition of the digest: byte m holds the bits 8m..8m+7
\* of the 160, lowest first
RefDigest(b) ==
    [m \in 1..20 |->
        LET V(u) == ((RefBit(b, 8 * (m - 1) + u) + LenBit(Len(b), 8 * (m - 1) + u)) % 2) * (2 ^ u)
        IN V(0) + V(1) + V(2) + V(3) + V(4) + V(5) + V(6) + V(7)]

\* "AAAAAAAAAAAAAAAAAAAAAAAAAAA=" and "aCgDG9jwBhDc4Q1yawMZAAAAAAA=", the
\* published QuickXorHash of the empty input and of "hello world"
EmptyQuickXorBase64 == [k \in 1..28 |-> IF k = 28 THEN "=" ELSE "A"]

HelloWorldQuickXorBase64 ==
    <<"a", "C", "g", "D", "G", "9", "j", "w", "B", "h", "D", "c", "4", "Q",
      "1", "y", "a", "w", "M", "Z", "A", "A", "A", "A", "A", "A", "A", "=">>

\* C17: Sum after Write(c1); ...; Write(cn) on a fresh QuickXor accumulator
\* returns the 20 bytes that Sum returns after the one Write(c1 .. cn), and a
\* Write of no bytes changes neither the buffer nor the counter
C17_ChunkingDoesNotMatter ==
    /\ [](IsQuickXor =>
            \A e \in SumIds :
                /\ Len(sums[e].out) = 20
                /\ sums[e].out = QuickXorSum(QuickXorWrite(QuickXorNew, HistAt(sums[e].n)), <<>>).out)
    /\ [][(IsQuickXor /\ IsEmptyWriteStep) => acc' = acc]_allVars

\* "hello" and then more than two buffers of bytes have been written, and
\* Sum has been called
C17_Witness ==
    /\ IsQuickXor
    /\ Len(hist) = 2
    /\ hist[1] = Hello
    /\ Len(hist[2]) > 2 * dataSize
    /\ \E e \in SumIds : sums[e].n = 2
    /\ acc.size = Len(Hello) + Len(hist[2])

\* C18: Sum leaves the accumulator as it was (QuickXor and the XXH3
\* adapters): two calls of Sum with no Write between them return the same
\* bytes, and a Sum after Write(x); Sum(); Write(y) returns what it returns
\* after Write(x); Write(y)
C18_SumKeepsState ==
    /\ [][IsSumStep => acc' = acc]_allVars
    /\ [](\A e, f \in SumIds : sums[e].n = sums[f].n => sums[e].out = sums[f].out)
    /\ [](\A e \in SumIds :
            sums[e].out = AccSum(alg, ReplayWrites(alg, SubSeq(hist, 1, sums[e].n)), <<>>).out)

\* Write(x); Sum(); Write(y); Sum() on a QuickXor accumulator
C18_Witness ==
    /\ IsQuickXor
    /\ Len(hist) = 2
    /\ hist[1] # <<>>
    /\ hist[2] # <<>>
    /\ Len(sums) = 2
    /\ sums[1].n = 1
    /\ sums[2].n = 2
    /\ sums[1].out # sums[2].out

\* C19: the QuickXor digest is the reference value: every input byte i is
\* xored into 160 zero bits at bit offset (11 * i) mod 160, wrapping past bit
\* 159, and the length is xored as a 64-bit little-endian number into the
\* last 8 bytes; the published digests of the empty input, of "hello" and
\* of "hello world" are reproduced
C19_DigestIsReference ==
    IsQuickXor =>
        \A e \in SumIds :
            /\ sums[e].out = RefDigest(HistAt(sums[e].n))
            /\ HistAt(sums[e].n) = <<>> =>
                  /\ sums[e].out = [k \in 1..20 |-> 0]
                  /\ Base64EncodeToString(sums[e].out) = EmptyQuickXorBase64
            /\ HistAt(sums[e].n) = Hello =>
                  Base64EncodeToString(sums[e].out) = HelloQuickXorBase64
            /\ HistAt(sums[e].n) = Hello \o World =>
                  Base64EncodeToString(sums[e].out) = HelloWorldQuickXorBase64

\* Sum has been called after "hello" and after "hello world"
C19_Witness ==
    /\ IsQuickXor
    /\ hist = <<Hello, World>>
    /\ Len(sums) = 2
    /\ Base64EncodeToString(sums[1].out) = HelloQuickXorBase64
    /\ Base64EncodeToString(sums[2].out) = HelloWorldQuickXorBase64

\* C20: Reset leaves a QuickXor accumulator with a zero buffer and a zero
\* counter, and Sum after Write(x); Reset(); Write(y) returns what it
\* returns after Write(y) on a new accumulator
C20_ResetIsFresh ==
    /\ [][(IsQuickXor /\ IsResetStep) =>
            /\ acc'.size = 0
            /\ \A i \in 0..(dataSize - 1) : acc'.data[i] = 0]_allVars
    /\ []((IsQuickXor /\ Len(wiped) > 0) =>
            \A e \in SumIds :
                sums[e].out = QuickXorSum(ReplayWrites(quickxorHasher,
                                              SubSeq(hist, 1, sums[e].n)), <<>>).out)

\* Write(x); Reset(); Write(y); Sum() with x and y not empty
C20_Witness ==
    /\ IsQuickXor
    /\ Len(wiped) = 1
    /\ Flatten(wiped[1]) # <<>>
    /\ Len(hist) = 1
    /\ hist[1] # <<>>
    /\ \E e \in SumIds : sums[e].n = 1
    /\ acc.size = Len(hist[1])

(***************************************************************************)
(* Vocabulary of the properties of the registry and of Parse.              *)
(***************************************************************************)
LastCallIs(op) == call # <<>> /\ call[1].op = op

\* the entries in lower case and without the spaces around them
Normalised(l) == [i \in 1..Len(l) |-> TrimSpace(ToLower(l[i]))]

\* the entries of q that are not empty, in their order
RECURSIVE NonBlank(_)
NonBlank(q) ==
    IF q = <<>> THEN <<>>
    ELSE IF q[Len(q)] = <<>> THEN NonBlank(SubSeq(q, 1, Len(q) - 1))
    ELSE Append(NonBlank(SubSeq(q, 1, Len(q) - 1)), q[Len(q)])

\* q without the later occurrences of its elements
RECURSIVE FirstOccurrences(_)
FirstOccurrences(q) ==
    IF q = <<>> THEN <<>>
    ELSE LET r == FirstOccurrences(SubSeq(q, 1, Len(q) - 1))
         IN IF q[Len(q)] \in Range(r) THEN r ELSE Append(r, q[Len(q)])

\* the names asked for by the entries of the last call of Parse
Asked == NonBlank(Normalised(call[1].entries))

\* the first name asked for that nobody has registered
FirstUnknown ==
    Asked[CHOOSE i \in 1..Len(Asked) :
              /\ Asked[i] \notin DOMAIN registry
              /\ \A j \in 1..(i - 1) : Asked[j] \in DOMAIN registry]

MD5Upper == <<"M", "D", "5">>
Sha256Padded == <<" ", "s", "h", "a", "2", "5", "6", " ">>
Md5Padded == <<" ", "m", "d", "5">>
Nope == <<"n", "o", "p", "e">>

\* the names the init functions register, as List returns them
StartupNames ==
    <<Spelling("blake3"), Spelling("crc32"), Spelling("md5"), Spelling("quickxor"),
      Spelling("sha1"), Spelling("sha256"), Spelling("sha512"), Spelling("xxh128"),
      Spelling("xxh3")>>

\* the step is a call of Register
IsRegisterStep == call' # <<>> /\ call'[1].op = "Register"

\* C21: Parse returns the hashers of the names asked for, in the order of
\* their first occurrence and each once, and returns the same for the same
\* entries in lower case and without the spaces around them
C21_ParseOrderAndDedup ==
    (LastCallIs("Parse") /\ call[1].res.err = Nil) =>
        /\ Len(call[1].res.hashers) = Len(FirstOccurrences(Asked))
        /\ \A i \in 1..Len(call[1].res.hashers) :
              /\ ToLower(Spelling(call[1].res.hashers[i].Name)) = FirstOccurrences(Asked)[i]
              /\ call[1].res.hashers[i] = registry[FirstOccurrences(Asked)[i]]
        /\ Parse(registry, StringsJoin(Normalised(call[1].entries), <<",">>)).hashers
              = call[1].res.hashers
        /\ Parse(registry, StringsJoin(Normalised(call[1].entries), <<",">>)).err = Nil

\* Parse("MD5, sha256 , md5") has returned [md5, sha256], as Parse("md5,sha256") does
C21_Witness ==
    /\ LastCallIs("Parse")
    /\ call[1].entries = <<MD5Upper, Sha256Padded, Md5Padded>>
    /\ call[1].res.err = Nil
    /\ call[1].res.hashers = <<md5Hasher, sha256Hasher>>
    /\ Parse(registry, <<"m", "d", "5", ",", "s", "h", "a", "2", "5", "6">>).hashers
          = <<md5Hasher, sha256Hasher>>

\* C22: Parse returns no hashers and an error that carries the name when an
\* entry that is not blank names no registered hasher, wherever it stands,
\* and an error of an empty selection when every entry is blank
C22_ParseFailures ==
    LastCallIs("Parse") =>
        /\ (\E i \in 1..Len(Asked) : Asked[i] \notin DOMAIN registry) =>
              /\ call[1].res.err = "unknown algorithm"
              /\ call[1].res.hashers = <<>>
              /\ call[1].res.name = FirstUnknown
        /\ Asked = <<>> =>
              /\ call[1].res.err \in {"no algorithms specified", "no valid algorithms specified"}
              /\ call[1].res.hashers = <<>>
        /\ (Asked # <<>> /\ \A i \in 1..Len(Asked) : Asked[i] \in DOMAIN registry) =>
              call[1].res.err = Nil

\* Parse has failed on an unknown entry that stands between two known ones
C22_Witness ==
    /\ LastCallIs("Parse")
    /\ Len(call[1].entries) = 3
    /\ call[1].entries[1] = Spelling("md5")
    /\ call[1].entries[2] = Nope
    /\ call[1].entries[3] = Spelling("sha256")
    /\ call[1].res.err = "unknown algorithm"
    /\ call[1].res.name = Nope
    /\ call[1].res.hashers = <<>>

\* C23: Register files the hasher under its name in lower case, replacing
\* what was there and nothing else; Get finds a hasher under every casing
\* of its name; List returns the names once each in ascending order, the
\* nine built-in names after the start
C23_RegistryByLowerName ==
    /\ [][IF IsRegisterStep
          THEN LET h == call'[1].arg
                   k == ToLower(Spelling(h.Name))
               IN /\ DOMAIN registry' = DOMAIN registry \cup {k}
                  /\ registry'[k] = h
                  /\ \A j \in DOMAIN registry \ {k} : registry'[j] = registry[j]
          ELSE registry' = registry]_allVars
    /\ [](\A k \in DOMAIN registry :
            /\ k = ToLower(k)
            /\ ToLower(Spelling(registry[k].Name)) = k)
    /\ [](LastCallIs("Get") =>
            /\ call[1].res.ok <=> \E k \in DOMAIN registry : k = ToLower(call[1].arg)
            /\ call[1].res.ok => call[1].res.h = <<registry[ToLower(call[1].arg)]>>)
    /\ [](LastCallIs("List") =>
            /\ Range(call[1].res) = DOMAIN registry
            /\ \A i \in 1..(Len(call[1].res) - 1) : StrLess(call[1].res[i], call[1].res[i + 1])
            /\ DOMAIN registry = Range(StartupNames) => call[1].res = StartupNames)

\* "MD5" was registered after the start and Get("Md5") has found it
C23_Witness ==
    /\ LastCallIs("Get")
    /\ call[1].arg = <<"M", "d", "5">>
    /\ call[1].res.ok
    /\ call[1].res.h = <<md5UpperHasher>>
    /\ Cardinality(DOMAIN registry) = 10

(***************************************************************************)
(* Vocabulary of the properties of Match.                                  *)
(***************************************************************************)
Returned(c) == callers[c].pc = "done"

\* the checks of the call of c that were made, in the order of Match
SizeChecked(c) == Len(callers[c].checks) >= 1
ExtChecked(c) == Len(callers[c].checks) >= 2
GlobChecked(c) == Len(callers[c].checks) >= 3

NoExtCriteria == flt.IncludeExts = <<>> /\ flt.ExcludeExts = <<>>
NoGlobCriteria == flt.IncludeGlobs = <<>> /\ flt.ExcludeGlobs = <<>>

\* the size lies strictly outside the limits that are set
OutsideLimits(size) ==
    \/ (flt.MaxSize > 0 /\ size > flt.MaxSize)
    \/ (flt.MinSize > 0 /\ size < flt.MinSize)

\* an entry of an extension list, with its leading dot
Dotted(e) == IF e # <<>> /\ e[1] = "." THEN e ELSE <<".">> \o e

\* the extension of the path is an entry of the list, whatever the case
ExtListed(list, path) ==
    \E i \in 1..Len(list) : ToLower(Dotted(list[i])) = ToLower(Ext(path))

\* a pattern of the list matches the whole path or its last element
GlobListed(list, path) ==
    \E i \in 1..Len(list) :
        \/ GlobMatch(list[i], ToSlash(path))
        \/ GlobMatch(list[i], Base(path))

\* C24: without extension and glob criteria Match is false exactly when the
\* size is above a MaxSize that is set or below a MinSize that is set; a
\* size equal to a limit is accepted and a limit of 0 is no limit
C24_SizeLimits ==
    \A c \in CallerIds :
        /\ SizeChecked(c) => (callers[c].checks[1] <=> ~OutsideLimits(callers[c].size))
        /\ (Returned(c) /\ NoExtCriteria /\ NoGlobCriteria) =>
              (callers[c].ret <=> ~OutsideLimits(callers[c].size))

\* with MinSize = MaxSize = 2, Match has accepted size 2 and rejected size 3
C24_Witness ==
    /\ flt = [NoFilter EXCEPT !.MaxSize = 2, !.MinSize = 2]
    /\ Returned(1) /\ callers[1].size = 2 /\ callers[1].ret
    /\ Returned(2) /\ callers[2].size = 3 /\ ~callers[2].ret

\* C25: with a non-empty IncludeExts the extension check passes exactly when
\* the extension of the path is, in any case and with or without the dot,
\* an entry of IncludeExts, whatever ExcludeExts holds; ExcludeExts decides
\* only when IncludeExts is empty
C25_AllowExtsFirst ==
    \A c \in CallerIds :
        ExtChecked(c) =>
            IF flt.IncludeExts # <<>>
            THEN callers[c].checks[2] <=> ExtListed(flt.IncludeExts, callers[c].path)
            ELSE callers[c].checks[2] <=> ~ExtListed(flt.ExcludeExts, callers[c].path)

\* d/a.t and a.T have passed the extension check of a filter that allows
\* .t and denies .t
C25_Witness ==
    /\ flt.IncludeExts = <<<<".", "t">>, <<".", "l">>>>
    /\ flt.ExcludeExts = <<<<".", "t">>>>
    /\ ExtChecked(1) /\ callers[1].path = FileA /\ callers[1].checks[2]
    /\ ExtChecked(2) /\ callers[2].path = UpperT /\ callers[2].checks[2]

\* C26: with a non-empty IncludeGlobs the glob check passes exactly when a
\* pattern of IncludeGlobs matches the path or its last element, whatever
\* ExcludeGlobs holds; ExcludeGlobs decides only when IncludeGlobs is empty
C26_AllowGlobsFirst ==
    \A c \in CallerIds :
        GlobChecked(c) =>
            IF flt.IncludeGlobs # <<>>
            THEN callers[c].checks[3] <=> GlobListed(flt.IncludeGlobs, callers[c].path)
            ELSE callers[c].checks[3] <=> ~GlobListed(flt.ExcludeGlobs, callers[c].path)

\* C27: a call of Match leaves the FilterOptions as it is and changes
\* nothing of another call; what it returns is the conjunction of the size
\* check, the extension check and the glob check on its own arguments, so
\* equal arguments give equal results and the empty FilterOptions accepts
\* everything
C27_MatchIsPure ==
    /\ [][flt' = flt]_allVars
    /\ [][\A c \in CallerIds :
            callers'[c] # callers[c] =>
                \A d \in CallerIds \ {c} : callers'[d] = callers[d]]_allVars
    /\ [](\A c \in CallerIds :
            Returned(c) =>
                /\ callers[c].ret <=>
                      /\ ~OutsideLimits(callers[c].size)
                      /\ matchExtension(flt, callers[c].path)
                      /\ matchGlob(flt, callers[c].path)
                /\ callers[c].ret = Match(flt, callers[c].path, callers[c].size)
                /\ flt = NoFilter => callers[c].ret
                /\ \A d \in CallerIds :
                      (/\ Returned(d)
                       /\ callers[d].path = callers[c].path
                       /\ callers[d].size = callers[c].size) => callers[d].ret = callers[c].ret)

\* two calls on one FilterOptions ran at the same time; one was accepted
\* and the glob check rejected the other
C27_Witness ==
    /\ Returned(1) /\ callers[1].ret
    /\ Returned(2) /\ callers[2].overlap /\ GlobChecked(2) /\ ~callers[2].ret

\* C28: with AbsolutePath set every Result of a scan, success or failure,
\* carries an absolute path; without it the Result carries the path as it
\* was listed or as the walk found it
C28_AbsoluteWhenSet ==
    \A r \in AllResults :
        IF s.AbsolutePath THEN IsAbs(r.Path) ELSE r.Path \in Entries

(***************************************************************************)
(* Vocabulary of the exit of the command.                                  *)
(***************************************************************************)
\* main has left its range over the merged stream
RangeEnded == main \in {"done", "exit"} /\ mrg # <<>>

\* the Results main has received from the merged stream that are failures
FailuresConsumed == {j \in 1..Len(merged) : merged[j].res.Error # Nil}

\* the Results the scans have sent
RECURSIVE SentCount(_)
SentCount(k) == IF k = 0 THEN 0 ELSE SentCount(k - 1) + Len(chans[k].sent)

C29_SkipEndsNormally ==
    /\ main = "done"
    /\ s.OnError = SkipOnError
    /\ FailuresConsumed # {}

(***************************************************************************)
(* Vocabulary of the properties of a task.                                 *)
(***************************************************************************)
\* the task has run
TaskDone == tk.pc = "done"

\* the filter rejects the path of the task at the size its os.Stat read
RejectedAtTaskTime ==
    s.Filter # <<>> /\ ~Match(s.Filter[1], tk.path, tk.info[1].size)

TaskYieldsFailure(err) ==
    /\ tk.res # <<>>
    /\ tk.res[1].Error = err
    /\ tk.res[1].Hashes = NilMap

TaskYieldsSuccess == tk.res # <<>> /\ tk.res[1].Error = Nil

\* C30 as stated: every task, of ScanFiles or of ScanDir, stats the path,
\* yields a failure Result with the invalid-target error when it is a
\* directory, and yields no success Result when the filter rejects the
\* size just read
C30_EveryTaskChecks ==
    TaskDone =>
        /\ tk.info[1].err # Nil => TaskYieldsFailure(tk.info[1].err)
        /\ (tk.info[1].err = Nil /\ tk.info[1].isDir) => TaskYieldsFailure("ErrInvalid")
        /\ (tk.info[1].err = Nil /\ ~tk.info[1].isDir /\ RejectedAtTaskTime) =>
              ~TaskYieldsSuccess

\* C30, amended: every task stats the path and yields a failure Result with
\* the error of a failed stat.  A task of ScanFiles then yields the
\* invalid-target failure for a directory and no Result when the filter
\* rejects the size just read.  A task of ScanDir makes neither check: it
\* hashes what the path holds by then and always yields a Result with the
\* size just read, a read failure when the path is a directory and a
\* success when the file is readable, whatever the filter says.
C30_TaskChecksBySource ==
    TaskDone =>
        /\ tk.info[1].err # Nil =>
              /\ TaskYieldsFailure(tk.info[1].err)
              /\ tk.res[1].Path = tk.path
        /\ (tk.src = "ScanFiles" /\ tk.info[1].err = Nil) =>
              /\ tk.info[1].isDir => TaskYieldsFailure("ErrInvalid")
              /\ (~tk.info[1].isDir /\ RejectedAtTaskTime) => tk.res = <<>>
              /\ (~tk.info[1].isDir /\ ~RejectedAtTaskTime) => tk.res # <<>>
        /\ (tk.src = "ScanDir" /\ tk.info[1].err = Nil) =>
              /\ tk.res # <<>>
              /\ tk.res[1].Size = tk.info[1].size
              /\ tk.res[1].Error # "ErrInvalid"
              /\ tk.info[1].isDir => (tk.res[1].Error # Nil /\ tk.res[1].Hashes = NilMap)
              /\ (~tk.info[1].isDir /\ fsys[tk.path] # "read") => TaskYieldsSuccess

\* the walk accepted d/a.t at 1 byte under MaxSize = 1; the file grew to 2
\* bytes; the task of ScanDir has hashed it and yielded a success
C30_Witness ==
    /\ TaskDone
    /\ tk.src = "ScanDir"
    /\ tk.path = FileA
    /\ tk.changed
    /\ tk.info[1].size = 2
    /\ RejectedAtTaskTime
    /\ TaskYieldsSuccess

\* a task of ScanDir has found a directory at its path and yielded a read
\* failure, not the invalid-target failure
C30_DirectoryInScanDirTask ==
    /\ TaskDone
    /\ tk.src = "ScanDir"
    /\ tk.info[1].err = Nil
    /\ tk.info[1].isDir
    /\ tk.res[1].Error # "ErrInvalid"

(***************************************************************************)
(* Vocabulary of the phases of ScanDir.                                    *)
(***************************************************************************)
\* 1 enumerating, 2 dispatching, 3 draining (all tasks started, or the walk
\* failed and its one Result is still to be sent), 4 closed
ScanDirPhase ==
    CASE pc = "walk" -> 1
      [] pc = "dispatch" /\ Len(tasks) < Len(files) -> 2
      [] pc = "dispatch" /\ Len(tasks) >= Len(files) -> 3
      [] pc = "abort" -> 3
      [] OTHER -> 4

\* the Result is one the walk sends: the error of Lstat, Info or ReadDir
IsWalkResult(r) == r.Error = "ErrPermission"

\* C31: a ScanDir goes through enumerating, dispatching, draining, closed in
\* this order; as long as the walk has an entry to visit no task exists (so
\* no file has been opened), and the failure Results of the walk stand in
\* the stream before every Result of a task
C31_PhasesInOrder ==
    /\ [][mode = "dir" => ScanDirPhase' >= ScanDirPhase]_vars
    /\ []((mode = "dir" /\ pc # "walk") => todo = <<>>)
    /\ []((mode = "dir" /\ (pc = "walk" \/ todo # <<>>)) => tasks = <<>>)
    /\ [](mode = "dir" =>
            \A k \in 1..Len(Emitted) : IsWalkResult(Emitted[k]) <=> k <= SentByWalk)

\* a closed ScanDir under SkipOnError whose stream holds a failure Result of
\* the walk and, after it, the Result of a hashed file
C31_Witness ==
    /\ mode = "dir"
    /\ pc = "closed"
    /\ Len(Emitted) >= 2
    /\ IsWalkResult(Emitted[1])
    /\ Emitted[Len(Emitted)].Error = Nil
    /\ Emitted[Len(Emitted)].Hashes # NilMap

(***************************************************************************)
(* Vocabulary of the pass of HashReader.                                   *)
(***************************************************************************)
\* the chunks accumulator i has received, by their numbers, in order
RECURSIVE ReceivedBy(_, _)
ReceivedBy(i, n) ==
    IF n = 0 THEN <<>>
    ELSE IF pass.log[n].op = "write" /\ pass.log[n].i = i
    THEN Append(ReceivedBy(i, n - 1), pass.log[n].k)
    ELSE ReceivedBy(i, n - 1)

\* the chunks read, by their numbers, in order
RECURSIVE ReadSoFar(_)
ReadSoFar(n) ==
    IF n = 0 THEN <<>>
    ELSE IF pass.log[n].op = "read" THEN Append(ReadSoFar(n - 1), pass.log[n].k)
    ELSE ReadSoFar(n - 1)

\* the numbers of the chunks of the reader that hold a byte
RECURSIVE FullChunks(_)
FullChunks(n) ==
    IF n = 0 THEN <<>>
    ELSE IF Len(reader.chunks[n]) > 0 THEN Append(FullChunks(n - 1), n)
    ELSE FullChunks(n - 1)

\* the bytes of the chunks numbered in q, one after another
RECURSIVE BytesOf(_)
BytesOf(q) == IF q = <<>> THEN <<>> ELSE reader.chunks[Head(q)] \o BytesOf(Tail(q))

\* C32: HashReader reads the chunks one after another, each once; after a
\* chunk is read it is written to the accumulators in the order of the
\* hashers, to the last of them before the next chunk is read; when the
\* pass is over every accumulator has received every chunk, and the call
\* returns what the digests of the whole data are
C32_SinglePass ==
    /\ \A j \in 1..Len(pass.log) :
          /\ pass.log[j].op = "read" => pass.log[j].k = Len(ReadSoFar(j - 1)) + 1
          /\ (pass.log[j].op = "read" /\ j > 1) =>
                \/ pass.log[j - 1].op = "read" /\ Len(reader.chunks[pass.log[j - 1].k]) = 0
                \/ pass.log[j - 1] = [op |-> "write", k |-> pass.log[j].k - 1, i |-> Len(hs)]
          /\ pass.log[j].op = "write" =>
                /\ j > 1
                /\ Len(reader.chunks[pass.log[j].k]) > 0
                /\ pass.log[j - 1] =
                      IF pass.log[j].i = 1 THEN [op |-> "read", k |-> pass.log[j].k, i |-> 0]
                      ELSE [op |-> "write", k |-> pass.log[j].k, i |-> pass.log[j].i - 1]
    /\ pass.pc \in {"read", "sum"} =>
          \A i \in 1..Len(hs) :
              /\ ReceivedBy(i, Len(pass.log)) = FullChunks(pass.next)
              /\ HashSum(hs[i], pass.accs[i])
                    = HashSum(hs[i], HashWrite(hs[i], HashNew(hs[i]),
                                               BytesOf(FullChunks(pass.next))))
    /\ (pass.pc \in {"sum", "done"} /\ Len(hs) > 0) =>
          ReadSoFar(Len(pass.log)) = [k \in 1..Len(reader.chunks) |-> k]
    /\ pass.pc = "done" => pass.res[1] = HashReader(reader, hs)

\* "hello" was read in two chunks and each chunk was written to the two
\* accumulators before the next read
C32_Witness ==
    /\ pass # <<>>
    /\ pass.pc = "done"
    /\ reader.data = Hello
    /\ pass.res[1].err = Nil
    /\ pass.log = <<[op |-> "read", k |-> 1, i |-> 0], [op |-> "write", k |-> 1, i |-> 1],
                    [op |-> "write", k |-> 1, i |-> 2], [op |-> "read", k |-> 2, i |-> 0],
                    [op |-> "write", k |-> 2, i |-> 1], [op |-> "write", k |-> 2, i |-> 2]>>

----------------------------------------------------------------------------
\* The size arguments of the command: parseSize and its two callers
\* (cmd/fhash/main.go).

\* the upper-case letter of every lower-case letter
UpperTable ==
    [c \in DOMAIN Code |->
        IF Code[c] >= Code["a"] /\ Code[c] <= Code["z"]
        THEN AsciiOrder[Code[c] - 27] ELSE c]

\* strings.ToUpper
ToUpper(str) == [i \in 1..Len(str) |-> UpperTable[str[i]]]

\* strings.HasSuffix
HasSuffix(str, suf) ==
    Len(str) >= Len(suf) /\ SubSeq(str, Len(str) - Len(suf) + 1, Len(str)) = suf

\* strings.TrimSuffix
TrimSuffix(str, suf) ==
    IF HasSuffix(str, suf) THEN SubSeq(str, 1, Len(str) - Len(suf)) ELSE str

\* A natural number of any size is the sequence of its digits to the base
\* 2^16, the least significant first and the most significant not zero; an
\* int64 is four such digits, the bits of its two's complement.
Limb == 2^16

Int64Zero == <<0, 0, 0, 0>>

\* x * m + a for a number x and m, a below 2^16
RECURSIVE MulAdd(_, _, _)
MulAdd(x, m, a) ==
    IF x = <<>> THEN (IF a = 0 THEN <<>> ELSE <<a>>)
    ELSE <<(x[1] * m + a) % Limb>> \o MulAdd(Tail(x), m, (x[1] * m + a) \div Limb)

\* the low 64 bits of a number
Wrap64(n) == [i \in 1..4 |-> IF i <= Len(n) THEN n[i] ELSE 0]

\* -v in int64
Neg64(v) == Wrap64(MulAdd([i \in 1..4 |-> Limb - 1 - v[i]], 1, 1))

\* v < 0 in int64
IsNeg64(v) == v[4] >= Limb \div 2

\* the number is at most 2^63 - 1
FitsInt64(n) == Len(n) < 4 \/ (Len(n) = 4 /\ n[4] < Limb \div 2)

\* the number is at most 2^63
FitsNegInt64(n) == FitsInt64(n) \/ n = <<0, 0, 0, Limb \div 2>>

\* the int64 product v * 1024^k, which wraps silently
RECURSIVE Times1024(_, _)
Times1024(v, k) == IF k = 0 THEN v ELSE Times1024(Wrap64(MulAdd(v, 1024, 0)), k - 1)

DecimalDigits == {"0", "1", "2", "3", "4", "5", "6", "7", "8", "9"}

\* the value of a string of decimal digits
RECURSIVE DecimalValue(_, _)
DecimalValue(digits, n) ==
    IF digits = <<>> THEN n
    ELSE DecimalValue(Tail(digits), MulAdd(n, 10, Code[digits[1]] - Code["0"]))

\* the extent of the longest prefix of str made of the characters of S
PrefixIn(str, S) ==
    LET Stop == {i \in 1..Len(str) : str[i] \notin S}
    IN IF Stop = {} THEN Len(str) ELSE (CHOOSE i \in Stop : \A j \in Stop : i <= j) - 1

\* fmt.Sscanf(str, "%d", &value): an optional sign, then the longest run of
\* digits and underscores, handed to strconv.ParseInt(tok, 10, 64); whatever
\* follows the run is left unread and is no error
Sscanf(str) ==
    LET signed == str # <<>> /\ str[1] \in {"+", "-"}
        body == IF signed THEN Tail(str) ELSE str
        n == PrefixIn(body, DecimalDigits \cup {"_"})
        tok == SubSeq(body, 1, n)
        mag == DecimalValue(tok, <<>>)
        neg == signed /\ str[1] = "-"
    IN IF n = 0 \/ \E i \in 1..n : tok[i] = "_"
       THEN [value |-> Int64Zero, err |-> "expected integer"]
       ELSE IF (IF neg THEN ~FitsNegInt64(mag) ELSE ~FitsInt64(mag))
       THEN [value |-> Int64Zero, err |-> "value out of range"]
       ELSE [value |-> IF neg THEN Neg64(Wrap64(mag)) ELSE Wrap64(mag), err |-> Nil]

\* the multipliers of parseSize, as the number of their factors 1024, each
\* with its two suffixes
SizeSuffixes ==
    <<[long |-> <<"K", "B">>, short |-> <<"K">>, factors |-> 1],
      [long |-> <<"M", "B">>, short |-> <<"M">>, factors |-> 2],
      [long |-> <<"G", "B">>, short |-> <<"G">>, factors |-> 3],
      [long |-> <<"T", "B">>, short |-> <<"T">>, factors |-> 4]>>

\* parseSize
parseSize(str) ==
    LET s0 == TrimSpace(ToUpper(str))
        Hit == {i \in 1..Len(SizeSuffixes) :
                    HasSuffix(s0, SizeSuffixes[i].long) \/ HasSuffix(s0, SizeSuffixes[i].short)}
        i == CHOOSE j \in Hit : \A k \in Hit : j <= k
        factors == IF Hit # {} THEN SizeSuffixes[i].factors ELSE 0
        s1 == IF Hit # {}
              THEN TrimSuffix(TrimSuffix(s0, SizeSuffixes[i].long), SizeSuffixes[i].short)
              ELSE TrimSuffix(s0, <<"B">>)
        scan == Sscanf(s1)
    IN IF s0 = <<>> THEN [value |-> Int64Zero, err |-> Nil]
       ELSE IF scan.err # Nil THEN [value |-> Int64Zero, err |-> "invalid size format"]
       ELSE [value |-> Times1024(scan.value, factors), err |-> Nil]

\* the values of --max-size and --min-size that are tried ("" is a flag
\* that is not given)
SizeArgs ==
    {<<>>,
     <<"1", "0">>,
     <<"1", "0", "B">>,
     <<"1", "0", "k">>,
     <<"1", "0", "K", "B">>,
     <<"1", "m">>,
     <<"1", "M", "B">>,
     <<"2", "G">>,
     <<"2", "g", "b">>,
     <<"3", "T">>,
     <<"3", "t", "b">>,
     <<" ", "7", " ">>,
     <<" ">>,
     <<"1", "2", "a", "b", "c">>,
     <<"5", "K", "K">>,
     <<"5", "K", "K", "B">>,
     <<"a", "b", "c">>,
     <<"K">>,
     <<"1", ".", "5", "M">>,
     <<"1", "0", " ", "K">>,
     <<"-", "5", "K">>,
     <<"1", "_", "0">>,
     <<"8", "3", "8", "8", "6", "0", "7", "T">>,
     <<"8", "3", "8", "8", "6", "0", "8", "T">>,
     <<"9", "0", "0", "7", "1", "9", "9", "2", "5", "4", "7", "4", "0", "9", "9", "2", "T">>,
     <<"9", "2", "2", "3", "3", "7", "2", "0", "3", "6", "8", "5", "4", "7", "7", "5", "8", "0", "7">>,
     <<"9", "2", "2", "3", "3", "7", "2", "0", "3", "6", "8", "5", "4", "7", "7", "5", "8", "0", "8">>,
     <<"1", "8", "4", "4", "6", "7", "4", "4", "0", "7", "3", "7", "0", "9", "5", "5", "1", "6", "1", "6">>}

\* a run of the command up to the end of parseFilterOptions
SizeInit ==
    /\ \E a \in SizeArgs, b \in SizeArgs :
          sz = [MaxSize |-> a, MinSize |-> b, pc |-> "max", calls |-> <<>>,
                filter |-> [MaxSize |-> Int64Zero, MinSize |-> Int64Zero], err |-> Nil]
    /\ s = [Workers |-> 1, Filter |-> <<>>, Hashers |-> <<md5Hasher>>, OnError |-> SkipOnError,
            Recursive |-> TRUE, AbsolutePath |-> FALSE]
    /\ fsys = [p \in Entries |-> "ok"]
    /\ ScanAtRest
    /\ CliAtRest
    /\ HashAtRest
    /\ QxAtRest
    /\ RegAtRest
    /\ FltAtRest
    /\ TaskAtRest
    /\ PassAtRest
    /\ RerunAtRest

SizeRest == UNCHANGED <<vars, cliVars, hashVars, qxVars, regVars, fltVars, taskVars, passVars, rerunVars>>

\* parseFilterOptions, cfg.MaxSize
SizeMax ==
    /\ sz # <<>> /\ sz.pc = "max"
    /\ LET r == parseSize(sz.MaxSize)
       IN sz' = IF sz.MaxSize = <<>> THEN [sz EXCEPT !.pc = "min"]
                ELSE IF r.err # Nil
                THEN [sz EXCEPT !.pc = "failed", !.err = "invalid max-size",
                                !.calls = Append(@, [arg |-> sz.MaxSize, res |-> r])]
                ELSE [sz EXCEPT !.pc = "min", !.filter.MaxSize = r.value,
                                !.calls = Append(@, [arg |-> sz.MaxSize, res |-> r])]
    /\ SizeRest

\* parseFilterOptions, cfg.MinSize
SizeMin ==
    /\ sz # <<>> /\ sz.pc = "min"
    /\ LET r == parseSize(sz.MinSize)
       IN sz' = IF sz.MinSize = <<>> THEN [sz EXCEPT !.pc = "parsed"]
                ELSE IF r.err # Nil
                THEN [sz EXCEPT !.pc = "failed", !.err = "invalid min-size",
                                !.calls = Append(@, [arg |-> sz.MinSize, res |-> r])]
                ELSE [sz EXCEPT !.pc = "parsed", !.filter.MinSize = r.value,
                                !.calls = Append(@, [arg |-> sz.MinSize, res |-> r])]
    /\ SizeRest

\* main, after parseFilterOptions: the error is printed and the process
\* exits with status 1, or the run goes on to the scan
SizeMain ==
    /\ sz # <<>> /\ sz.pc \in {"failed", "parsed"}
    /\ sz' = [sz EXCEPT !.pc = IF sz.err # Nil THEN "exit" ELSE "scan"]
    /\ SizeRest

SizeNext == SizeMax \/ SizeMin \/ SizeMain

SpecSize == SizeInit /\ [][SizeNext]_allVars

\* What the size syntax promises for an argument: digits, then one of the
\* suffixes, in either case; its value when the product fits in an int64.
SizeUnits ==
    <<<<"K", "B">>, <<"M", "B">>, <<"G", "B">>, <<"T", "B">>,
      <<"K">>, <<"M">>, <<"G">>, <<"T">>, <<"B">>, <<>>>>

UnitPower(unit) ==
    IF unit = <<>> \/ unit = <<"B">> THEN 0
    ELSE CHOOSE k \in 1..4 : <<"K", "M", "G", "T">>[k] = unit[1]

RECURSIVE TimesPower(_, _)
TimesPower(n, k) == IF k = 0 THEN n ELSE TimesPower(MulAdd(n, 1024, 0), k - 1)

PromisedSize(arg) ==
    LET u == TrimSpace(ToUpper(arg))
        n == PrefixIn(u, DecimalDigits)
        unit == SubSeq(u, n + 1, Len(u))
        product == TimesPower(DecimalValue(SubSeq(u, 1, n), <<>>), UnitPower(unit))
    IN IF n > 0 /\ (\E i \in 1..Len(SizeUnits) : SizeUnits[i] = unit) /\ FitsInt64(product)
       THEN [value |-> Wrap64(product), err |-> Nil]
       ELSE [value |-> Int64Zero, err |-> "error"]

\* every call of parseSize so far answered as promised
SizeCallsAsPromised ==
    \A i \in 1..Len(sz.calls) :
        LET c == sz.calls[i]
            p == PromisedSize(c.arg)
        IN /\ (c.res.err = Nil) <=> (p.err = Nil)
           /\ c.res.err = Nil => c.res.value = p.value

\* C33: parseSize maps digits with an optional suffix B, K/KB, M/MB, G/GB,
\* T/TB (in either case) to n * 1024^k, and every other argument, digits
\* followed by other characters and products beyond an int64 included, to an
\* error, after which the run exits before any scan.
C33_ParseSizeStrict ==
    sz # <<>> =>
        /\ SizeCallsAsPromised
        /\ sz.pc = "scan" =>
              \A a \in {sz.MaxSize, sz.MinSize} \ {<<>>} : PromisedSize(a).err = Nil
        /\ (\E i \in 1..Len(sz.calls) : sz.calls[i].res.err # Nil) => sz.pc \in {"failed", "exit"}

\* What does hold: an argument of the promised form whose product fits gets
\* the promised value, and an error of parseSize ends the run before the scan.
C33_PromisedFormAccepted ==
    sz # <<>> =>
        /\ \A i \in 1..Len(sz.calls) :
              LET c == sz.calls[i]
                  p == PromisedSize(c.arg)
              IN p.err = Nil => c.res = p
        /\ (\E i \in 1..Len(sz.calls) : sz.calls[i].res.err # Nil) => sz.pc \in {"failed", "exit"}
        /\ sz.pc = "scan" => sz.err = Nil

\* The run goes on to the scan with --max-size 12abc, taken as 12.
C33_TrailingTextAccepted ==
    /\ sz # <<>>
    /\ sz.pc = "scan"
    /\ sz.MaxSize = <<"1", "2", "a", "b", "c">>
    /\ sz.filter.MaxSize = <<12, 0, 0, 0>>

\* The run goes on to the scan with --max-size 8388608T, taken as -2^63.
C33_OverflowAccepted ==
    /\ sz # <<>>
    /\ sz.pc = "scan"
    /\ sz.MaxSize = <<"8", "3", "8", "8", "6", "0", "8", "T">>
    /\ sz.filter.MaxSize = <<0, 0, 0, 32768>>

----------------------------------------------------------------------------
\* Termination of one scan.
\* the scan is over: every task has completed, the stream is closed and read
\* to its end
ScanOver ==
    /\ pc = "closed"
    /\ closes = 1
    /\ \A i \in 1..Len(tasks) : tasks[i].pc = "done"
    /\ results = <<>>

\* the entries the walk has before it: those in todo and all below them
RECURSIVE EntriesLeft(_)
EntriesLeft(q) ==
    IF q = <<>> THEN 0
    ELSE Cardinality({e \in Entries : HasPrefix(e, Head(q))}) + EntriesLeft(Tail(q))

\* a bound on the steps the scan and its consumer have before them: ten for
\* an entry to visit (the visit, a failure Result and its receipt, or the
\* six steps of a file), six for a file to dispatch, two for a Result in the
\* channel, three for the close
StepsToClose ==
    10 * EntriesLeft(todo)
        + 6 * (Len(files) - Len(tasks))
        + TasksStepsLeft(tasks, Len(tasks))
        + 2 * Len(results)
        + (IF closes = 0 THEN 3 ELSE 0)
        + (IF panicked THEN 0 ELSE 1)

\* some goroutine can take a step: Next, with the steps of the consumer and
\* of the tasks that are past their hashing first
SomeGoroutineSteps ==
    \/ Recv
    \/ \E i \in 1..Len(tasks) : TaskExit(i)
    \/ \E i \in 1..Len(tasks) : TaskSend(i)
    \/ Dispatch
    \/ WaitClose
    \/ AbortSend
    \/ WalkStep
    \/ \E i \in 1..Len(tasks) : TaskScan(i)

\* C34: with Workers >= 1 and a consumer that keeps reading, every
\* dispatched task eventually completes and the stream is eventually closed,
\* for every path list or tree, every pattern of failures and either policy:
\* the semaphore, the wait group and the bounded channel never deadlock.
\* As long as the scan is not over some goroutine (the dispatcher, a task or
\* the consumer) can take a step, and every step lowers StepsToClose, so a
\* run in which runnable goroutines keep running ends with the scan over.
C34_ScanTerminates ==
    /\ [](s.Workers >= 1 /\ ~ScanOver => ENABLED SomeGoroutineSteps)
    /\ [][StepsToClose' < StepsToClose]_vars
    /\ [](StepsToClose >= 0 /\ ~panicked)

\* A scan of more files than Workers, with a failing file, that has
\* completed every task and closed the stream.
C34_Witness ==
    /\ ScanOver
    /\ Len(tasks) > s.Workers
    /\ \E k \in 1..Len(consumed) : consumed[k].Error # Nil
    /\ \E k \in 1..Len(consumed) : consumed[k].Error = Nil

----------------------------------------------------------------------------
\* A Scanner without workers (fhash -w 0, or Scanner{Workers: 0}): the
\* semaphore and the result channel are made without a buffer.
ZeroScanners ==
    [Workers : {0}, Filter : FilterChoices, Hashers : HasherChoices,
     OnError : {SkipOnError, FailOnError}, Recursive : BOOLEAN, AbsolutePath : BOOLEAN]

\* the scans of the Scanners with and without workers
SpecWorkers == ScanInit(Scanners \cup ZeroScanners) /\ [][Next]_vars

\* the dispatch loop has a path before it
PathToDispatch == pc = "dispatch" /\ Len(tasks) < Len(files)

\* C35: with Workers = 0 and at least one path to dispatch the dispatcher
\* blocks for ever in the first `sem <- struct{}{}`: no task starts, no
\* Result of a hashing is emitted (the stream carries at most the failures
\* of the walk), and the stream is never closed, so the range loop of the
\* consumer never ends.
C35_ZeroWorkersBlock ==
    /\ [](s.Workers = 0 => /\ tasks = <<>>
                           /\ sem = 0
                           /\ \A k \in 1..Len(Emitted) :
                                 mode = "dir" /\ Emitted[k].Error # Nil /\ Emitted[k].Hashes = NilMap)
    /\ []((s.Workers = 0 /\ PathToDispatch) =>
              /\ files # <<>>
              /\ closes = 0
              /\ ~ENABLED (WalkStep \/ AbortSend \/ Dispatch \/ WaitClose))
    /\ [][(s.Workers = 0 /\ PathToDispatch) => (PathToDispatch' /\ closes' = 0)]_vars

\* The dispatcher of ScanDir is blocked with two files to dispatch, after
\* the consumer has read the failure the walk sent.
C35_Witness ==
    /\ s.Workers = 0
    /\ mode = "dir"
    /\ PathToDispatch
    /\ Len(files) = 2
    /\ results = <<>>
    /\ Len(consumed) = 1
    /\ ~ENABLED Next

----------------------------------------------------------------------------
\* ScanFiles under the two error policies.  A call of ScanFiles runs to its
\* end; then the same call (same Scanner but for the other policy, same
\* paths, same file system) is made again, and its tasks are let through
\* to the channel only in the order in which the first run emitted.
OtherPolicy(policy) == IF policy = FailOnError THEN SkipOnError ELSE FailOnError

PolicyInit == Init /\ mode = "files"

\* the second call, after the first is over
Rerun ==
    /\ rerun = <<>>
    /\ ScanOver
    /\ rerun' = [first |-> consumed]
    /\ s' = [s EXCEPT !.OnError = OtherPolicy(@)]
    /\ pc' = "dispatch"
    /\ tasks' = <<>>
    /\ sem' = 0
    /\ wg' = 0
    /\ results' = <<>>
    /\ closes' = 0
    /\ consumed' = <<>>
    /\ UNCHANGED <<fsys, mode, todo, files, panicked>>
    /\ UNCHANGED <<cliVars, hashVars, qxVars, regVars, fltVars, taskVars, passVars, sizeVars>>

\* in the second run, the Result of task i is the one the first run emitted
\* at this place
InTurn(i) ==
    rerun # <<>> =>
        /\ Len(results) + Len(consumed) < Len(rerun.first)
        /\ tasks[i].res = <<rerun.first[Len(results) + Len(consumed) + 1]>>

PolicyNext ==
    \/ Recv
    \/ \E i \in 1..Len(tasks) : TaskExit(i)
    \/ \E i \in 1..Len(tasks) : TaskSend(i) /\ InTurn(i)
    \/ Dispatch
    \/ WaitClose
    \/ Rerun
    \/ \E i \in 1..Len(tasks) : TaskScan(i)

SpecPolicy == PolicyInit /\ [][PolicyNext]_allVars

----------------------------------------------------------------------------
\* ScanFiles with a single worker.

\* what ScanFile yields for the first n paths of the list, in their order
RECURSIVE InListOrder(_)
InListOrder(n) ==
    IF n = 0 THEN <<>> ELSE InListOrder(n - 1) \o ScanFile(s, fsys, files[n])

\* the Results of the first n tasks that have handed theirs to the channel
RECURSIVE HandedOver(_)
HandedOver(n) ==
    IF n = 0 THEN <<>>
    ELSE HandedOver(n - 1) \o (IF tasks[n].pc \in {"exit", "done"} THEN tasks[n].res ELSE <<>>)

C37_FilteredWitness ==
    /\ mode = "files"
    /\ s.Workers = 1
    /\ ScanOver
    /\ Len(files) = 3
    /\ Len(consumed) = 2
    /\ tasks[2].res = <<>>
    /\ PathIs(consumed[1], files[1])
    /\ PathIs(consumed[2], files[3])

----------------------------------------------------------------------------
\* Runs of the command with two sources, the second a directory: the root
\* of the tree has more files than the channel of one worker holds.
MergeArgLists == {<<a, d>> : a \in {FileA, SubDir}, d \in {Root, SubDir}}

SpecMerge == CliInitOn(MergeArgLists) /\ [][CliNext]_allVars

\* everything the sources 1..k have sent, source after source
RECURSIVE SentUpTo(_)
SentUpTo(k) == IF k = 0 THEN <<>> ELSE SentUpTo(k - 1) \o chans[k].sent

\* source k is closed and all it sent stands in the merged stream
FullyMerged(k) ==
    /\ chans[k].closes > 0
    /\ chans[k].results = <<>>
    /\ FromChan(k) = chans[k].sent

\* a step of source k after its walk
SourceSteps(k) ==
    \/ SrcDispatch(k)
    \/ SrcWaitClose(k)
    \/ \E i \in 1..Len(chans[k].tasks) : SrcTaskSend(k, i)
    \/ \E i \in 1..Len(chans[k].tasks) : SrcTaskExit(k, i)
    \/ \E i \in 1..Len(chans[k].tasks) : SrcTaskScan(k, i)

\* source k can take a step: it walks, or its dispatch loop or a task can
SourceRuns(k) == chans[k].pc = "walk" \/ ENABLED SourceSteps(k)

\* source k can go no further before its channel is read: the channel is
\* full, every task in flight waits to send, and the slots are taken or no
\* path is left to dispatch
SourceFull(k) ==
    LET c == chans[k]
    IN /\ Len(c.results) = 2 * s.Workers
       /\ \A i \in 1..Len(c.tasks) : c.tasks[i].pc \in {"send", "done"}
       /\ c.sem = s.Workers \/ Len(c.tasks) = Len(c.files)
       /\ c.sem > 0

C38_ConcatenationWitness ==
    /\ outClosed
    /\ Len(chans) = 2
    /\ Len(chans[1].sent) = 1
    /\ Len(chans[2].sent) >= 3
    /\ merged = chans[1].sent \o chans[2].sent

----------------------------------------------------------------------------
\* ScanDir under FailOnError when the walk meets an entry it cannot read.

\* the walk of this scan meets (or has met) such an entry
WalkFails == \E e \in Entries : Reached(e) /\ MetaFault(e)

====
